---- MODULE Spec2Model ----
(***************************************************************************)
(* A model of the repository access plane of origin (wbrijesh/origin):     *)
(* the pre-receive signature verifier and the post-receive dispatcher that *)
(* git receive-pack runs around a push, the SSH public-key authenticator,  *)
(* and the read-only smart-git HTTP handlers.                              *)
(*                                                                         *)
(* The specifications share the variables; each runs one part:             *)
(*   Spec      a push through git receive-pack: pre-receive, ref update,   *)
(*             post-receive and webhook delivery, with the key table       *)
(*             changing underneath;                                        *)
(*   SpecAuth  SSH connections authenticating while keys come and go;      *)
(*   SpecHttp  HTTP smart-git requests while repositories come and go;     *)
(*   the others are introduced where they are defined.                     *)
(***************************************************************************)
EXTENDS Integers, Sequences, FiniteSets, TLC

\* ------------------------------------------------------------------ bounds
\* Commits of the object graph, numbered so that parents have smaller numbers.
NCommits == 4
\* Lines on the hook's standard input.
MaxLines == 2

\* -------------------------------------------------------------- the world
\* strings.Repeat("0", 40): the SHA of no object.
ZeroSHA == 0

Commits == 1 .. NCommits

\* The signing keys that ever exist; a commit is signed by one of them or by none.
Keys == {"K1", "K2"}
NoKey == "unsigned"

\* The refs of the pushed repository.
RefNames == {"main", "dev"}

\* The commit graph: 1 is the root, 2 and 3 are its children, and every later
\* commit continues the line two back: 1 <- 2 <- 4 <- ..., 1 <- 3 <- 5 <- ...
Parents(c) == IF c = 1 THEN {} ELSE IF c <= 3 THEN {1} ELSE {c - 2}

\* Who signed a commit: K1, K2, K1 and nobody in turn.
SignerOf(c) == CASE c % 4 \in {1, 3} -> "K1" [] c % 4 = 2 -> "K2" [] OTHER -> NoKey

RECURSIVE Ancestors(_)
Ancestors(c) == {c} \cup UNION {Ancestors(p) : p \in Parents(c)}

\* The commits reachable from a set of SHAs (ZeroSHA names nothing).
Reach(S) == UNION {Ancestors(c) : c \in S \ {ZeroSHA}}

Max(S) == CHOOSE m \in S : \A x \in S : x <= m

\* git rev-list prints newest first: here, by descending number.
RECURSIVE Newest(_)
Newest(S) == IF S = {} THEN << >>
             ELSE <<Max(S)>> \o Newest(S \ {Max(S)})

Range(s) == {s[k] : k \in 1 .. Len(s)}

\* ------------------------------------------------------------------ state
VARIABLES
  ssh_keys,     \* the keys with a row in table ssh_keys
  refs,         \* the pushed repository's refs: name -> SHA, ZeroSHA when absent
  pc,           \* where git receive-pack and its hooks are
  env,          \* the ORIGIN_* variables that are NOT set in the hooks' environment
  pusher,       \* the key behind ORIGIN_PUSHER_KEY_FINGERPRINT, NoKey when no push
  sessEnd,      \* how the last push's session ended: gitCmd.Run's error, the exit
  stdin,        \* the lines receive-pack feeds the hooks, each a tuple of fields
  scanned,      \* the lines the running hook has consumed
  allowed,      \* the keys written to the allowed-signers manifest
  manifest,     \* whether the manifest temp file exists
  listed,       \* per processed update, the commits rev-list gave: <<line, commits>>
  examined,     \* the commits verify-commit was run on, in order
  preErr,       \* what VerifyPreReceive returned
  preStderr,    \* the lines `origin hook pre-receive` wrote to its stderr
  preExit,      \* the exit status of `origin hook pre-receive`, NotExited before
  keysAtHook,   \* history: table ssh_keys when the hook queried it (or started)
  faults,       \* history: the operations that failed under the running push
  refsBefore,   \* the refs when the push began
  ran,          \* the hooks receive-pack has started for this push
  webhookTable, \* table webhooks joined with repositories: repo, url, secret, active
  webhooks,     \* the webhooks post-receive loaded
  pending,      \* delivery tasks started and not finished: line, webhook, payload
  delivered,    \* the POSTs of the tasks that ran to their end, with their line
  lastOutcome,  \* how the delivery that ended last ended
  postErr,      \* what RunPostReceive returned
  postExit,     \* the exit status of `origin hook post-receive`
  conns,        \* SSH connections: the key each presented and the handler's answer
  repositories, \* table repositories: name -> "absent", "public" or "private"
  dirs,         \* the names n with a directory <data>/repos/n.git
  exchange,     \* the last HTTP exchange: request, store row then, response
  children,     \* the git children the HTTP front-end spawned
  session,      \* the last SSH session: its command and what handleSession did
  procs,        \* the server process and the connections whose handler started a
                \* git child, in arrival order
  hostKeyFile,  \* the host key file: absent, or its key, whether it parses, its mode
  server,       \* the running boot: its phase, host key, listeners and exit code
  boots,        \* history: per boot, the key file before and after ensureHostKey
  tmpdir,       \* the names of the files in os.TempDir()
  hookRuns,     \* concurrent runs of `origin hook pre-receive`: position, manifest
  pkt,          \* a call of WritePktline: the string and what was written
  config,       \* a configuration: as loaded, and as Validate left it
  settings,     \* table settings: password_hash and admin_username, and who set them
  setupReqs,    \* the setup POSTs: where each handler is
  webSessions,  \* the setup POSTs that were given a logged-in session
  logCall       \* a call of Log: history, page, perPage and the result

preVars == <<scanned, allowed, manifest, listed, examined, preErr, preStderr, preExit,
            keysAtHook, faults>>
postVars == <<webhooks, pending, delivered, lastOutcome, postErr, postExit>>
pushVars == <<refs, pc, env, pusher, sessEnd, stdin, refsBefore, ran, preVars, postVars>>
authVars == <<conns>>
sshVars == <<session>>
storeVars == <<webhookTable>>
httpVars == <<repositories, dirs, exchange, children>>
accessVars == <<ssh_keys, pushVars, authVars, sshVars, storeVars, httpVars>>
bootVars == <<hostKeyFile, server, boots>>
tempVars == <<tmpdir, hookRuns>>
setupVars == <<settings, setupReqs, webSessions>>
sysVars == <<procs, bootVars, tempVars, pkt, config, setupVars, logCall>>
vars == <<ssh_keys, pushVars, authVars, sshVars, storeVars, httpVars, sysVars>>

NotExited == 0 - 1

EnvNames == {"ORIGIN_DATA_PATH", "ORIGIN_REPO_PATH", "ORIGIN_REPO_NAME"}

\* An error value: its kind and, for a commit that failed, the commit.
NoErr == [kind |-> "nil", sha |-> ZeroSHA]
Error(kind, sha) == [kind |-> kind, sha |-> sha]

\* A line with a field count other than three (git itself never writes one).
Malformed == <<ZeroSHA, ZeroSHA>>

\* How gitCmd.Run can end: nil, or an error (the child exited non-zero, was
\* killed with the session's context, or never started).
RunErrors == {"nil", "exit status 1", "signal: killed", "not started"}

\* A session exit that reports success whatever the child did.
sessionExit_AlwaysZero(runErr) == 0

\* handleSession, lines 84-94: sess.Exit(1) on any error of gitCmd.Run, else 0.
sessionExit(runErr) == IF runErr # "nil" THEN 1 ELSE 0

\* No session has ended since the running push began.
NoSessEnd == [runErr |-> "none", declined |-> FALSE, exit |-> NotExited]

\* gossh.FingerprintSHA256: one fingerprint per key, the form stored in the row.
FingerprintSHA256(key) == <<"SHA256", key>>

\* ------------------------------------------------------- key administration
\* handleAddSSHKey: INSERT INTO ssh_keys; the UNIQUE columns refuse a second row.
AddSSHKey(k) ==
  /\ k \notin ssh_keys
  /\ ssh_keys' = ssh_keys \cup {k}

\* handleDeleteSSHKey: DELETE FROM ssh_keys WHERE id = ?
DeleteSSHKey(k) ==
  /\ k \in ssh_keys
  /\ ssh_keys' = ssh_keys \ {k}

\* ------------------------------------------------------------- pre-receive
\* commitSHA[:7]: the first seven of the forty digits of a commit's name, as
\* text; commits of the model differ in them.
ShortSHA(sha) == ToString(sha)

\* A line of a process's stderr: who wrote it and its text, part by part.
LogLine(msg) == [by |-> "slog", text |-> <<msg>>]

\* err.Error() for what VerifyPreReceive returns: "commit <short>: unsigned or
\* invalid signature" and then the output of git verify-commit on lines of its
\* own, or the name of the operation that failed.
ErrorLines(err) ==
  IF err.kind = "commit"
    THEN << <<"commit", ShortSHA(err.sha), "unsigned or invalid signature">>,
            <<"output of git verify-commit">> >>
    ELSE << <<err.kind>> >>

\* A runHook whose message leaves the commit out.
runHookStderr_ReasonOnly(hookName, err) ==
  IF hookName = "pre-receive" /\ err # NoErr
    THEN << [by |-> "runHook", text |-> <<"origin: push rejected", err.kind>>] >>
    ELSE << >>

\* runHook: fmt.Fprintf(os.Stderr, "origin: push rejected - %v\n", err) for
\* pre-receive; the error's text may run over several lines.
runHookStderr(hookName, err) ==
  IF hookName = "pre-receive" /\ err # NoErr
    THEN LET lines == ErrorLines(err) IN
         [i \in 1 .. Len(lines) |->
            [by |-> "runHook",
             text |-> IF i = 1 THEN <<"origin: push rejected">> \o lines[i]
                      ELSE lines[i]]]
    ELSE << >>

\* A runHook that exits 0 whatever the hook returned.
runHook_AlwaysZero(hookName, err) == 0

\* A runHook that treats post-receive as it treats pre-receive.
runHook_PostFails(hookName, err) ==
  IF hookName \in {"pre-receive", "post-receive"}
    THEN (IF err # NoErr THEN 1 ELSE 0)
    ELSE 1

\* runHook: the exit status of `origin hook <name>` given what the hook returned.
runHook(hookName, err) ==
  CASE hookName = "pre-receive"  -> IF err # NoErr THEN 1 ELSE 0
    [] hookName = "post-receive" -> 0
    [] OTHER                     -> 1

\* A buildAllowedSigners without the check for an empty key table.
buildAllowedSigners_NoEmptyCheck(keysTable, queryOK, tempOK) ==
  IF ~queryOK
    THEN [signers |-> {}, file |-> FALSE, err |-> Error("query ssh keys", ZeroSHA)]
  ELSE IF ~tempOK
    THEN [signers |-> {}, file |-> FALSE, err |-> Error("create temp file", ZeroSHA)]
  ELSE [signers |-> keysTable, file |-> TRUE, err |-> NoErr]

\* buildAllowedSigners: query every public key, write one "* <key>" line each to a
\* temp file. No key at all is an error; a failed write leaves no file behind.
buildAllowedSigners(keysTable, queryOK, tempOK) ==
  IF ~queryOK
    THEN [signers |-> {}, file |-> FALSE, err |-> Error("query ssh keys", ZeroSHA)]
  ELSE IF keysTable = {}
    THEN [signers |-> {}, file |-> FALSE,
          err |-> Error("no SSH keys found in database", ZeroSHA)]
  ELSE IF ~tempOK
    THEN [signers |-> {}, file |-> FALSE, err |-> Error("create temp file", ZeroSHA)]
  ELSE [signers |-> keysTable, file |-> TRUE, err |-> NoErr]

\* A scan loop that does not skip deletes.
isDelete_Never(newSHA) == FALSE

\* "Skip deletes": the new SHA is forty zeros.
isDelete(newSHA) == newSHA = ZeroSHA

\* A revRange without the new-branch case: always old..new.
revRange_TwoDots(oldSHA, newSHA, repoRefs) == [tips |-> {newSHA}, hide |-> {oldSHA}]

\* The rev-list arguments chosen for an update: what to walk from, what to leave out.
\* "--not --all" leaves out everything reachable from a ref of the repository.
revRange(oldSHA, newSHA, repoRefs) ==
  IF oldSHA = ZeroSHA
    THEN [tips |-> {newSHA}, hide |-> {repoRefs[r] : r \in RefNames}]
    ELSE [tips |-> {newSHA}, hide |-> {oldSHA}]

\* listCommits: git rev-list <tips> ^<hide>, newest first.
listCommits(range) == Newest(Reach(range.tips) \ Reach(range.hide))

\* A verifyCommitSignature that accepts only commits signed by the pusher's key.
verifyCommitSignature_PusherOnly(commitSHA, allowedSigners) ==
  IF SignerOf(commitSHA) \in allowedSigners /\ SignerOf(commitSHA) = pusher
    THEN NoErr
    ELSE Error("unsigned or invalid signature", commitSHA)

\* verifyCommitSignature: git verify-commit succeeds iff the commit carries a good
\* signature by a key of the allowed-signers file.
verifyCommitSignature(commitSHA, allowedSigners) ==
  IF SignerOf(commitSHA) \in allowedSigners
    THEN NoErr
    ELSE Error("unsigned or invalid signature", commitSHA)

\* A loop that notes the first failure and goes on to the end of the list.
RECURSIVE verifyCommits_NoStop(_, _)
verifyCommits_NoStop(commits, allowedSigners) ==
  IF commits = << >> THEN [examined |-> << >>, err |-> NoErr]
  ELSE LET c == Head(commits)
           e == verifyCommitSignature(c, allowedSigners)
           rest == verifyCommits_NoStop(Tail(commits), allowedSigners)
       IN [examined |-> <<c>> \o rest.examined,
           err |-> IF e # NoErr THEN e ELSE rest.err]

\* The loop over one update's commits: it stops at the first that fails.
RECURSIVE verifyCommits(_, _)
verifyCommits(commits, allowedSigners) ==
  IF commits = << >> THEN [examined |-> << >>, err |-> NoErr]
  ELSE LET c == Head(commits)
           e == verifyCommitSignature(c, allowedSigners)
       IN IF e # NoErr
            THEN [examined |-> <<c>>, err |-> e]
            ELSE LET rest == verifyCommits(Tail(commits), allowedSigners)
                 IN [examined |-> <<c>> \o rest.examined, err |-> rest.err]

\* The hook function returns: its deferred cleanup removes the manifest, and
\* runHook turns the error into the process's exit status.
PreReturn(logged, err) ==
  /\ preErr' = err
  /\ preStderr' = preStderr \o logged \o runHookStderr("pre-receive", err)
  /\ preExit' = runHook("pre-receive", err)
  /\ manifest' = FALSE
  /\ pc' = "pre_exit"

\* VerifyPreReceive up to the scan loop: the environment check and
\* buildAllowedSigners.
PreStart ==
  /\ pc = "pre_start"
  /\ keysAtHook' = ssh_keys
  /\ UNCHANGED <<ssh_keys, refs, env, pusher, sessEnd, stdin, scanned, listed, examined, refsBefore,
                 ran, postVars, authVars, sshVars, storeVars, sysVars, httpVars>>
  /\ IF {"ORIGIN_DATA_PATH", "ORIGIN_REPO_PATH"} \cap env # {}
       THEN /\ PreReturn(<< >>, Error("missing required environment variables", ZeroSHA))
            /\ UNCHANGED <<allowed, faults>>
       ELSE \E queryOK \in BOOLEAN, tempOK \in BOOLEAN :
              LET b == buildAllowedSigners(ssh_keys, queryOK, tempOK) IN
              /\ faults' = faults \cup
                   (IF b.err.kind \in {"query ssh keys", "create temp file"}
                      THEN {b.err.kind} ELSE {})
              /\ IF b.err # NoErr
                   THEN PreReturn(<<LogLine("pre-receive: verifying commit signatures")>>,
                                  b.err)
                        /\ UNCHANGED allowed
                   ELSE /\ allowed' = b.signers
                        /\ manifest' = b.file
                        /\ pc' = "pre_scan"
                        /\ preStderr' = Append(preStderr,
                             LogLine("pre-receive: verifying commit signatures"))
                        /\ UNCHANGED <<preErr, preExit>>

\* One turn of the scan loop: a line is read and handled whole.
PreLine ==
  /\ pc = "pre_scan"
  /\ scanned < Len(stdin)
  /\ scanned' = scanned + 1
  /\ UNCHANGED <<ssh_keys, refs, env, pusher, sessEnd, stdin, allowed, keysAtHook, refsBefore, ran,
                 postVars, authVars, sshVars, storeVars, sysVars, httpVars>>
  /\ LET parts == stdin[scanned + 1] IN
     IF Len(parts) # 3
       THEN UNCHANGED <<listed, examined, preErr, preStderr, preExit, manifest, pc, faults>>
     ELSE IF isDelete(parts[2])
       THEN UNCHANGED <<listed, examined, preErr, preStderr, preExit, manifest, pc, faults>>
     ELSE \E listOK \in BOOLEAN :
            IF ~listOK
              THEN /\ PreReturn(<< >>, Error("list commits", ZeroSHA))
                   /\ faults' = faults \cup {"list commits"}
                   /\ UNCHANGED <<listed, examined>>
              ELSE LET commits == listCommits(revRange(parts[1], parts[2], refs))
                       v == verifyCommits(commits, allowed)
                   IN /\ listed' = Append(listed, <<scanned + 1, commits>>)
                      /\ examined' = examined \o v.examined
                      /\ UNCHANGED faults
                      /\ IF v.err # NoErr
                           THEN PreReturn(<< >>, Error("commit", v.err.sha))
                           ELSE UNCHANGED <<preErr, preStderr, preExit, manifest, pc>>

\* scanner.Scan returns false: at the end of the input, or earlier on a read error.
PreEnd ==
  /\ pc = "pre_scan"
  /\ UNCHANGED <<ssh_keys, refs, env, pusher, sessEnd, stdin, scanned, allowed, listed, examined,
                 keysAtHook, refsBefore, ran, postVars, authVars, sshVars, storeVars, sysVars, httpVars>>
  /\ \E readOK \in BOOLEAN :
       IF readOK
         THEN /\ scanned = Len(stdin)
              /\ PreReturn(<<LogLine("pre-receive: all commits verified")>>, NoErr)
              /\ UNCHANGED faults
         ELSE PreReturn(<< >>, Error("read stdin", ZeroSHA))
              /\ faults' = faults \cup {"read stdin"}

\* ------------------------------------------------------------ receive-pack
\* The updates a client may ask for: any ref, from its current value to another.
Updates(rf) == {<<rf[r], n, r>> : r \in RefNames, n \in (0 .. NCommits)} \
               {<<rf[r], rf[r], r>> : r \in RefNames}

\* The inputs of a hook: up to MaxLines lines, no ref named twice.
StdinChoices(rf) ==
  {s \in UNION {[1 .. n -> Updates(rf) \cup {Malformed}] : n \in 1 .. MaxLines} :
     \A i, j \in 1 .. Len(s) :
        (i # j /\ Len(s[i]) = 3 /\ Len(s[j]) = 3) => s[i][3] # s[j][3]}

\* The hooks' environment: handleSession sets every ORIGIN_* variable; a
\* receive-pack started otherwise may lack one.
EnvChoices == {{}} \cup {{v} : v \in EnvNames}

\* handleSession runs `git receive-pack <repoPath>`; git reads the commands and
\* starts hooks/pre-receive with one line per command on its standard input.
ReceivePack ==
  /\ pc = "idle"
  /\ \E lines \in StdinChoices(refs), unset \in EnvChoices :
       /\ stdin' = lines
       /\ env' = unset
  /\ \E key \in Keys : pusher' = key
  /\ sessEnd' = NoSessEnd
  /\ refsBefore' = refs
  /\ ran' = {"pre-receive"}
  /\ pc' = "pre_start"
  /\ UNCHANGED <<ssh_keys, refs, preVars, postVars, authVars, sshVars, storeVars, sysVars, httpVars>>

\* The refs after git applied the commands of `lines` to `rf`.
RECURSIVE ApplyUpdates(_, _)
ApplyUpdates(rf, lines) ==
  IF lines = << >> THEN rf
  ELSE LET l == Head(lines)
       IN ApplyUpdates(IF Len(l) = 3 THEN [rf EXCEPT ![l[3]] = l[2]] ELSE rf,
                       Tail(lines))

\* What git does with pre-receive's exit status: non-zero refuses every command
\* and runs no further hook; zero updates the refs and starts hooks/post-receive.
\* The hook process is gone: what it held in memory is dropped.
HookVerdict ==
  /\ pc = "pre_exit"
  /\ IF preExit # 0
       THEN /\ pc' = "rejected"
            /\ UNCHANGED <<refs, ran, allowed, listed, examined, keysAtHook>>
       ELSE /\ refs' = ApplyUpdates(refs, stdin)
            /\ ran' = ran \cup {"post-receive"}
            /\ pc' = "post_start"
            /\ allowed' = {}
            /\ listed' = << >>
            /\ examined' = << >>
            /\ keysAtHook' = {}
  /\ scanned' = 0
  /\ UNCHANGED <<ssh_keys, env, pusher, sessEnd, stdin, refsBefore, manifest, preErr, preStderr, preExit, faults,
                 postVars, authVars, sshVars, storeVars, sysVars, httpVars>>

\* ------------------------------------------------------------ post-receive
\* The repository being pushed to.
RepoName == "proj"

\* A URL or a secret is a sequence of symbols, "|" one of them. The rows the
\* server starts with.
WebhookRows ==
  { [repo |-> "proj",  url |-> <<"U1">>, secret |-> <<"s1">>, active |-> TRUE],
    [repo |-> "proj",  url |-> <<"U2">>, secret |-> << >>,    active |-> TRUE],
    [repo |-> "proj",  url |-> <<"U3">>, secret |-> <<"s3">>, active |-> FALSE],
    [repo |-> "other", url |-> <<"U4">>, secret |-> <<"s4">>, active |-> TRUE] }

\* sqlite3 -separator "|": one line per row, the columns joined by the separator
\* and written as they are.
FormatRow(w) == w.url \o <<"|">> \o w.secret

\* strings.SplitN(line, "|", 2): the line up to its first separator and the rest,
\* or the whole line when it has none.
RECURSIVE SplitAtFirst(_, _)
SplitAtFirst(before, rest) ==
  IF rest = << >> THEN <<before>>
  ELSE IF Head(rest) = "|" THEN <<before, Tail(rest)>>
  ELSE SplitAtFirst(Append(before, Head(rest)), Tail(rest))

ParseRow(line) ==
  LET parts == SplitAtFirst(<< >>, line) IN
  [URL |-> parts[1], Secret |-> IF Len(parts) > 1 THEN parts[2] ELSE << >>]

\* loadWebhooks: SELECT w.url, w.secret ... WHERE r.name = ? AND w.active = 1 run
\* by the sqlite3 command, its output split into lines and each line parsed.
loadWebhooks(repoName, table) ==
  {ParseRow(FormatRow(w)) : w \in {x \in table : x.repo = repoName /\ x.active}}

\* The hook function returns and runHook with it: main returns and the process
\* exits, whatever tasks it started.
PostReturn(err) ==
  /\ postErr' = err
  /\ postExit' = runHook("post-receive", err)
  /\ pc' = "post_exit"

\* RunPostReceive up to the scan loop: the environment check, update-server-info
\* (its result dropped) and loadWebhooks.
PostStart ==
  /\ pc = "post_start"
  /\ UNCHANGED <<ssh_keys, refs, env, pusher, sessEnd, stdin, refsBefore, ran, preVars, pending,
                 delivered, lastOutcome, authVars, sshVars, storeVars, sysVars, httpVars>>
  /\ IF {"ORIGIN_DATA_PATH", "ORIGIN_REPO_NAME"} \cap env # {}
       THEN /\ PostReturn(Error("missing required environment variables", ZeroSHA))
            /\ UNCHANGED webhooks
       ELSE \E serverInfoOK \in BOOLEAN, loadOK \in BOOLEAN :
              IF ~loadOK
                THEN PostReturn(NoErr) /\ UNCHANGED webhooks
              ELSE IF loadWebhooks(RepoName, webhookTable) = {}
                THEN PostReturn(NoErr) /\ UNCHANGED webhooks
              ELSE /\ webhooks' = loadWebhooks(RepoName, webhookTable)
                   /\ pc' = "post_scan"
                   /\ UNCHANGED <<postErr, postExit>>

\* The PushEvent of a line (its timestamp left out) and json.Marshal of it.
PushEvent(parts) ==
  [Event |-> "push", Repo |-> RepoName, Ref |-> parts[3], Before |-> parts[1],
   After |-> parts[2], Pusher |-> FingerprintSHA256(pusher)]

Marshal(event) == <<"json", event>>

\* HMAC-SHA256 and lowercase hex, kept as terms: equal only for equal arguments.
HmacSHA256(key, message) == <<"hmac-sha256", key, message>>
HexEncode(bytes) == <<"hex", bytes>>

\* deliver: the request it sends, one POST.
deliver(wh, payload) ==
  [method |-> "POST", url |-> wh.URL, body |-> payload,
   headers |-> {<<"Content-Type", "application/json">>,
                <<"User-Agent", "Origin-Webhook/1.0">>,
                <<"X-Origin-Event", "push">>}
               \cup (IF wh.Secret # << >>
                       THEN {<<"X-Origin-Signature",
                               <<"sha256=", HexEncode(HmacSHA256(wh.Secret, payload))>> >>}
                       ELSE {})]

\* A Deliver that starts two tasks for each webhook.
Deliver_Twice(whs, event, n) ==
  {[line |-> n, wh |-> wh, payload |-> Marshal(event), try |-> t] :
     wh \in whs, t \in {1, 2}}

\* Deliver: `go deliver(wh, payload)` for each webhook: the tasks the event of
\* line n starts. None is waited for.
Deliver(whs, event, n) ==
  {[line |-> n, wh |-> wh, payload |-> Marshal(event), try |-> 1] : wh \in whs}

\* One turn of the scan loop of RunPostReceive.
PostLine ==
  /\ pc = "post_scan"
  /\ scanned < Len(stdin)
  /\ scanned' = scanned + 1
  /\ IF Len(stdin[scanned + 1]) # 3
       THEN UNCHANGED pending
       ELSE pending' = pending \cup Deliver(webhooks, PushEvent(stdin[scanned + 1]),
                                              scanned + 1)
  /\ UNCHANGED <<ssh_keys, refs, pc, env, pusher, sessEnd, stdin, refsBefore, ran, allowed, manifest,
                 listed, examined, preErr, preStderr, preExit, keysAtHook, faults, webhooks,
                 delivered, lastOutcome, postErr, postExit, authVars, sshVars, storeVars, sysVars, httpVars>>

\* scanner.Scan returns false, at the end of the input or on a read error (the
\* two are not told apart): RunPostReceive returns nil.
PostEnd ==
  /\ pc = "post_scan"
  /\ \E readOK \in BOOLEAN : readOK => scanned = Len(stdin)
  /\ PostReturn(NoErr)
  /\ UNCHANGED <<ssh_keys, refs, env, pusher, sessEnd, stdin, refsBefore, ran, preVars, webhooks,
                 pending, delivered, lastOutcome, authVars, sshVars, storeVars, sysVars, httpVars>>

\* How a POST can end: a response below 400, one from 400 up, a transport
\* error, or the client's 5 s timeout. Each is logged and nothing else.
Outcomes == {"2xx", "4xx", "transport error", "timeout"}

\* deliver: a started task runs while the process lives, to one of its ends.
DeliverFinish ==
  /\ pc = "post_scan"
  /\ \E d \in pending, outcome \in Outcomes :
       /\ pending' = pending \ {d}
       /\ delivered' = delivered \cup
            {[line |-> d.line, try |-> d.try, req |-> deliver(d.wh, d.payload)]}
       /\ lastOutcome' = outcome
  /\ UNCHANGED <<ssh_keys, refs, pc, env, pusher, sessEnd, stdin, refsBefore, ran, preVars, webhooks,
                 postErr, postExit, authVars, sshVars, storeVars, sysVars, httpVars>>

\* receive-pack is done with the push, gitCmd.Run returns and handleSession exits
\* the session; the next push may begin.
PushDone ==
  /\ pc \in {"rejected", "post_exit"}
  /\ pc' = "idle"
  /\ env' = {}
  /\ pusher' = NoKey
  /\ \E runErr \in RunErrors \ {"not started"} :
       sessEnd' = [runErr |-> runErr, declined |-> pc = "rejected",
                   exit |-> sessionExit(runErr)]
  /\ stdin' = << >>
  /\ refsBefore' = refs
  /\ ran' = {}
  /\ scanned' = 0
  /\ allowed' = {}
  /\ listed' = << >>
  /\ examined' = << >>
  /\ preErr' = NoErr
  /\ preStderr' = << >>
  /\ preExit' = NotExited
  /\ keysAtHook' = {}
  /\ faults' = {}
  /\ webhooks' = {}
  /\ pending' = {}
  /\ delivered' = {}
  /\ lastOutcome' = "none"
  /\ postErr' = NoErr
  /\ postExit' = NotExited
  /\ UNCHANGED <<ssh_keys, refs, manifest, authVars, sshVars, storeVars, sysVars, httpVars>>

\* Keys are added and removed through the admin pages at any time.
KeyAdmin ==
  /\ \E k \in Keys : AddSSHKey(k) \/ DeleteSSHKey(k)
  /\ UNCHANGED <<pushVars, authVars, sshVars, storeVars, sysVars, httpVars>>

\* ---------------------------------------------------- SSH authentication
\* Connections the model follows.
MaxConns == 3

\* A handler that remembers the keys it accepted.
publicKeyHandler_Cached(key, keysTable, dbOK) ==
  \/ dbOK /\ key \in keysTable
  \/ \E i \in 1 .. Len(conns) : conns[i].key = key /\ conns[i].accepted

\* publicKeyHandler: SELECT COUNT(*) FROM ssh_keys WHERE fingerprint = ?; a store
\* error and a count of zero both refuse.
publicKeyHandler(key, keysTable, dbOK) ==
  LET fp == FingerprintSHA256(key)
      count == Cardinality({k \in keysTable : FingerprintSHA256(k) = fp})
  IN IF ~dbOK THEN FALSE
     ELSE IF count = 0 THEN FALSE
     ELSE TRUE

\* A client connects presenting a key; the handler answers. `row` and `dbOK`
\* record what the store held and did at the query.
SSHConnect ==
  /\ Len(conns) < MaxConns
  /\ \E key \in Keys, dbOK \in BOOLEAN :
       conns' = Append(conns, [key |-> key, row |-> key \in ssh_keys, dbOK |-> dbOK,
                               accepted |-> publicKeyHandler(key, ssh_keys, dbOK)])
  /\ UNCHANGED <<ssh_keys, pushVars, sshVars, storeVars, sysVars, httpVars>>

\* ------------------------------------------------------------ smart HTTP
\* The repository names of the model; each may have a row, a directory, both
\* or neither.
RepoNames == {"proj", "secret"}

\* r.PathValue("repo"): a name, with or without the ".git" a client may append.
PathValues == {<<n>> : n \in RepoNames} \cup {<<n, ".git">> : n \in RepoNames}

\* sanitizeRepoPath: strings.TrimSuffix(name, ".git"), then slashes trimmed and
\* the path cleaned (a single segment holds no slash to trim or clean).
sanitizeRepoPath(name) ==
  LET t == IF Len(name) > 1 /\ name[Len(name)] = ".git"
             THEN SubSeq(name, 1, Len(name) - 1) ELSE name
  IN t[1]

NoChild == [service |-> "none", dir |-> "none", args |-> << >>]
Response(status, body, child) == [status |-> status, body |-> body, child |-> child]

\* net/http.StatusText
StatusText(code) ==
  CASE code = 400 -> "Bad Request" [] code = 403 -> "Forbidden"
    [] code = 404 -> "Not Found"   [] OTHER -> "OK"

\* renderStatus: http.Error(w, "<code> <StatusText>", code)
renderStatus(code) == Response(code, <<code, StatusText(code)>>, NoChild)

\* A canReadRepo that only asks whether the row exists.
canReadRepo_NoPrivateCheck(name, rows, dbOK) == dbOK /\ rows[name] # "absent"

\* canReadRepo: SELECT is_private FROM repositories WHERE name = ?; no row or a
\* store error is "cannot read", and so is a private repository.
canReadRepo(name, rows, dbOK) ==
  IF ~dbOK \/ rows[name] = "absent" THEN FALSE
  ELSE IF rows[name] = "private" THEN FALSE
  ELSE TRUE

\* A gitInfoRefs that looks the repository up before it looks at the service.
gitInfoRefs_RepoFirst(repo, service, rows, dbOK) ==
  LET repoName == sanitizeRepoPath(repo) IN
  IF ~canReadRepo(repoName, rows, dbOK)
    THEN renderStatus(404)
  ELSE IF service = "git-receive-pack"
    THEN Response(403, "push over HTTP is not supported - use SSH", NoChild)
  ELSE IF service # "git-upload-pack"
    THEN renderStatus(400)
  ELSE Response(200, "application/x-git-upload-pack-advertisement",
                [service |-> "git-upload-pack", dir |-> repoName,
                 args |-> <<"--stateless-rpc", "--advertise-refs">>])

\* gitInfoRefs: GET /{repo}/info/refs?service=...
gitInfoRefs(repo, service, rows, dbOK) ==
  LET repoName == sanitizeRepoPath(repo) IN
  IF service # "git-upload-pack"
    THEN IF service = "git-receive-pack"
           THEN Response(403, "push over HTTP is not supported - use SSH", NoChild)
           ELSE renderStatus(400)
  ELSE IF ~canReadRepo(repoName, rows, dbOK)
    THEN renderStatus(404)
  ELSE Response(200, "application/x-git-upload-pack-advertisement",
                [service |-> "git-upload-pack", dir |-> repoName,
                 args |-> <<"--stateless-rpc", "--advertise-refs">>])

\* gitUploadPack: POST /{repo}/git-upload-pack
gitUploadPack(repo, rows, dbOK) ==
  LET repoName == sanitizeRepoPath(repo) IN
  IF ~canReadRepo(repoName, rows, dbOK)
    THEN renderStatus(404)
  ELSE Response(200, "application/x-git-upload-pack-result",
                [service |-> "git-upload-pack", dir |-> repoName,
                 args |-> <<"--stateless-rpc">>])

\* gitReceivePackDenied: POST /{repo}/git-receive-pack
gitReceivePackDenied(repo) ==
  Response(403, "push over HTTP is not supported - use SSH", NoChild)

\* One exchange: the request, what the store held for the name and whether it
\* answered, and the response.
Exchanged(route, repo, service, dbOK, resp) ==
  <<[route |-> route, repo |-> repo, service |-> service,
     row |-> repositories[sanitizeRepoPath(repo)], dbOK |-> dbOK, resp |-> resp]>>

\* Service.Run: the child a handler ran joins the children.
Spawned(resp) ==
  children \cup {[service |-> c.service, dir |-> c.dir] : c \in {resp.child} \ {NoChild}}

HttpInfoRefs ==
  /\ \E repo \in PathValues, dbOK \in BOOLEAN,
        service \in {"git-upload-pack", "git-receive-pack", "git-other", ""} :
       LET resp == gitInfoRefs(repo, service, repositories, dbOK) IN
       /\ exchange' = Exchanged("GET info/refs", repo, service, dbOK, resp)
       /\ children' = Spawned(resp)
  /\ UNCHANGED <<ssh_keys, pushVars, authVars, sshVars, storeVars, sysVars, repositories, dirs>>

HttpUploadPack ==
  /\ \E repo \in PathValues, dbOK \in BOOLEAN :
       LET resp == gitUploadPack(repo, repositories, dbOK) IN
       /\ exchange' = Exchanged("POST git-upload-pack", repo, "", dbOK, resp)
       /\ children' = Spawned(resp)
  /\ UNCHANGED <<ssh_keys, pushVars, authVars, sshVars, storeVars, sysVars, repositories, dirs>>

HttpReceivePack ==
  /\ \E repo \in PathValues :
       LET resp == gitReceivePackDenied(repo) IN
       /\ exchange' = Exchanged("POST git-receive-pack", repo, "", TRUE, resp)
       /\ children' = Spawned(resp)
  /\ UNCHANGED <<ssh_keys, pushVars, authVars, sshVars, storeVars, sysVars, repositories, dirs>>

\* ------------------------------------------------ repository administration
Flag(isPrivate) == IF isPrivate THEN "private" ELSE "public"

\* A name that is no repository name: it leaves the directory it is joined to.
BadName == "../x"

\* The names a row or a directory of the model can have, and the values the
\* name fields of the admin forms can take.
StoreNames == RepoNames \cup {BadName}
FormNames == StoreNames \cup {""}

\* The characters of a name, one by one.
NameChars(name) ==
  CASE name = "proj" -> <<"p", "r", "o", "j">>
    [] name = "secret" -> <<"s", "e", "c", "r", "e", "t">>
    [] name = BadName -> <<".", ".", "/", "x">>
    [] OTHER -> << >>

Lower == {"a", "b", "c", "d", "e", "f", "g", "h", "i", "j", "k", "l", "m",
          "n", "o", "p", "q", "r", "s", "t", "u", "v", "w", "x", "y", "z"}
Upper == {"A", "B", "C", "D", "E", "F", "G", "H", "I", "J", "K", "L", "M",
          "N", "O", "P", "Q", "R", "S", "T", "U", "V", "W", "X", "Y", "Z"}
Digits == {"0", "1", "2", "3", "4", "5", "6", "7", "8", "9"}

\* The test of handleCreateRepo's loop over the characters of the name.
validName(name) ==
  \A k \in 1 .. Len(NameChars(name)) :
     NameChars(name)[k] \in Lower \cup Upper \cup Digits \cup {"-", "_", "."}

\* filepath.Join(ReposPath, name + ".git") stays under ReposPath unless the name
\* has a slash in it.
UnderRepos(name) == "/" \notin Range(NameChars(name))

\* handleCreateRepo: the name checked, git init --bare, then INSERT; a failed
\* INSERT removes the directory again and is answered with "Repository name
\* already taken.".
CreateRepo ==
  /\ \E name \in FormNames, isPrivate \in BOOLEAN, initOK \in BOOLEAN,
        dbOK \in BOOLEAN :
       IF name = "" \/ ~validName(name)
         THEN UNCHANGED <<repositories, dirs>>
       ELSE IF ~initOK
         THEN UNCHANGED <<repositories, dirs>>
       ELSE IF ~dbOK \/ repositories[name] # "absent"
         THEN /\ dirs' = dirs \ {name}
              /\ UNCHANGED repositories
       ELSE /\ dirs' = dirs \cup {name}
            /\ repositories' = [repositories EXCEPT ![name] = Flag(isPrivate)]
  /\ UNCHANGED <<ssh_keys, pushVars, authVars, sshVars, storeVars, sysVars, exchange, children>>

\* handleUpdateRepoSettings: UPDATE repositories SET is_private = ? WHERE name = ?
UpdateRepoSettings ==
  /\ \E repo \in PathValues, isPrivate \in BOOLEAN, dbOK \in BOOLEAN :
       LET name == sanitizeRepoPath(repo) IN
       IF dbOK /\ repositories[name] # "absent"
         THEN repositories' = [repositories EXCEPT ![name] = Flag(isPrivate)]
         ELSE UNCHANGED repositories
  /\ UNCHANGED <<ssh_keys, pushVars, authVars, sshVars, storeVars, sysVars, dirs, exchange, children>>

\* handleRenameRepo: os.Rename of the directory, then UPDATE of the row, whose
\* error is dropped.
RenameRepo ==
  /\ \E repo \in PathValues, newName \in FormNames, moveOK \in BOOLEAN,
        dbOK \in BOOLEAN :
       LET name == sanitizeRepoPath(repo) IN
       IF newName = "" \/ newName = name
         THEN UNCHANGED <<repositories, dirs>>
       ELSE IF ~moveOK \/ name \notin dirs \/ newName \in dirs
         THEN UNCHANGED <<repositories, dirs>>
       ELSE /\ dirs' = (dirs \ {name}) \cup {newName}
            /\ IF dbOK /\ repositories[name] # "absent"
                    /\ repositories[newName] = "absent"
                 THEN repositories' = [repositories EXCEPT
                                         ![newName] = repositories[name],
                                         ![name] = "absent"]
                 ELSE UNCHANGED repositories
  /\ UNCHANGED <<ssh_keys, pushVars, authVars, sshVars, storeVars, sysVars, exchange, children>>

\* handleDeleteRepo: os.RemoveAll of the directory, then DELETE of the row.
DeleteRepo ==
  /\ \E repo \in PathValues, dbOK \in BOOLEAN :
       LET name == sanitizeRepoPath(repo) IN
       /\ dirs' = dirs \ {name}
       /\ IF dbOK
            THEN repositories' = [repositories EXCEPT ![name] = "absent"]
            ELSE UNCHANGED repositories
  /\ UNCHANGED <<ssh_keys, pushVars, authVars, sshVars, storeVars, sysVars, exchange, children>>

\* ------------------------------------------------------------ SSH sessions
\* A command or a path is a sequence of symbols: a blank, a slash, a quote, the
\* suffix ".git", or a word without any of these.
Blank == " "
Quotes == {"'", "\""}

\* strings.Fields: the maximal runs of non-blank symbols.
RECURSIVE FieldsFrom(_, _, _)
FieldsFrom(s, cur, out) ==
  IF s = << >>
    THEN IF cur = << >> THEN out ELSE Append(out, cur)
  ELSE IF Head(s) = Blank
    THEN FieldsFrom(Tail(s), << >>, IF cur = << >> THEN out ELSE Append(out, cur))
  ELSE FieldsFrom(Tail(s), Append(cur, Head(s)), out)

Fields(s) == FieldsFrom(s, << >>, << >>)

\* strings.TrimPrefix and strings.TrimSuffix: one occurrence, at the very end only.
TrimPrefix(s, prefix) ==
  IF s # << >> /\ Head(s) = prefix THEN Tail(s) ELSE s

TrimSuffix(s, suffix) ==
  IF s # << >> /\ s[Len(s)] = suffix THEN SubSeq(s, 1, Len(s) - 1) ELSE s

\* strings.Trim: every leading and trailing symbol of the cutset.
RECURSIVE Trim(_, _)
Trim(s, cutset) ==
  IF s # << >> /\ Head(s) \in cutset THEN Trim(Tail(s), cutset)
  ELSE IF s # << >> /\ s[Len(s)] \in cutset
    THEN Trim(SubSeq(s, 1, Len(s) - 1), cutset)
  ELSE s

\* filepath.Clean on paths of words and slashes: runs of slashes become one, a
\* trailing slash goes unless the path is the root, the empty path becomes ".".
RECURSIVE Squeeze(_)
Squeeze(s) ==
  IF Len(s) < 2 THEN s
  ELSE IF s[1] = "/" /\ s[2] = "/" THEN Squeeze(Tail(s))
  ELSE <<Head(s)>> \o Squeeze(Tail(s))

Clean(s) ==
  LET q == Squeeze(s) IN
  IF q = << >> THEN <<".">>
  ELSE IF Len(q) > 1 /\ q[Len(q)] = "/" THEN SubSeq(q, 1, Len(q) - 1)
  ELSE q

\* sanitizeRepoName: TrimPrefix "/", TrimSuffix ".git", Trim of quotes, Clean,
\* in that order.
sanitizeRepoName(name) ==
  Clean(Trim(TrimSuffix(TrimPrefix(name, "/"), ".git"), Quotes))

\* SELECT id FROM repositories WHERE name = ?: a row is found when the store
\* answers and the text is, symbol for symbol, a name with a row.
HasRow(name, rows, dbOK) ==
  /\ dbOK
  /\ Len(name) = 1
  /\ name[1] \in DOMAIN rows
  /\ rows[name[1]] # "absent"

\* service.String()[4:]: the service name without its "git-".
Subcommand(serviceName) ==
  CASE serviceName = "git-upload-pack" -> "upload-pack"
    [] serviceName = "git-receive-pack" -> "receive-pack"

NoSshChild == [service |-> "none", dir |-> << >>]
SessionEnd(stage, stderr, exit, child) ==
  [stage |-> stage, stderr |-> stderr, exit |-> exit, child |-> child]

\* A handleSession that runs git without asking the store for the repository.
handleSession_NoLookup(cmd, rows, dbOK, runErr) ==
  LET args == Fields(cmd) IN
  IF cmd = << >> \/ Len(args) # 2
       \/ args[1][1] \notin {"git-upload-pack", "git-receive-pack"}
    THEN SessionEnd("parse-command", <<"invalid command">>, 1, NoSshChild)
    ELSE SessionEnd("invoke", << >>, sessionExit(runErr),
                    [service |-> Subcommand(args[1][1]),
                     dir |-> sanitizeRepoName(args[2])])

\* handleSession: what it writes to the session's stderr, the status it exits
\* the session with, and the git child it runs.
handleSession(cmd, rows, dbOK, runErr) ==
  IF cmd = << >>
    THEN SessionEnd("parse-command",
                    <<"interactive SSH sessions are not supported">>, 1, NoSshChild)
  ELSE
  LET args == Fields(cmd) IN
  IF Len(args) # 2
    THEN SessionEnd("parse-command", <<"invalid command: %s">>, 1, NoSshChild)
  ELSE
  LET serviceName == IF Len(args[1]) = 1 THEN args[1][1] ELSE "other"
      repoName == sanitizeRepoName(args[2])
  IN
  IF serviceName \notin {"git-upload-pack", "git-receive-pack"}
    THEN SessionEnd("parse-command", <<"unsupported command: %s">>, 1, NoSshChild)
  ELSE IF ~HasRow(repoName, rows, dbOK)
    THEN SessionEnd("resolve-repo", <<"repository not found: %s">>, 1, NoSshChild)
  ELSE SessionEnd("invoke", << >>, sessionExit(runErr),
                  [service |-> Subcommand(serviceName), dir |-> repoName])

\* The commands a client may send: nothing, a service alone, a service and a
\* path in each of the forms a client writes it, or more than two fields.
ServiceTokens == {"git-upload-pack", "git-receive-pack", "git-upload-archive"}
PathForms(n) == {<<n>>, <<"/", n>>, <<n, ".git">>, <<"/", n, ".git">>}
Wrapped(path) == {path} \cup {<<q>> \o path \o <<q>> : q \in Quotes}
PathTokens == UNION {Wrapped(path) : path \in PathForms("proj")} \cup {<<"secret">>}
Commands ==
  {<< >>}
    \cup {<<sv>> : sv \in ServiceTokens}
    \cup {<<sv, Blank>> \o path : sv \in ServiceTokens, path \in PathTokens}
    \cup {<<sv, Blank, Blank>> \o path \o <<Blank>> :
            sv \in {"git-upload-pack"}, path \in {<<"proj">>}}
    \cup {<<sv, Blank>> \o path \o <<Blank, "x">> :
            sv \in {"git-receive-pack"}, path \in {<<"proj">>}}

\* One SSH session from its command to its exit. `rowNames` and `dbOK` record
\* what the store held and did at the lookup, `runErr` what gitCmd.Run returned.
SshSession ==
  /\ \E cmd \in Commands, fault \in {"store"} \cup RunErrors :
       LET dbOK == fault # "store"
           runErr == IF fault = "store" THEN "nil" ELSE fault
           end == handleSession(cmd, repositories, dbOK, runErr)
       IN
       session' = << [cmd |-> cmd, dbOK |-> dbOK,
                      rowNames |-> {n \in RepoNames : repositories[n] # "absent"},
                      runErr |-> IF end.child = NoSshChild THEN "not run" ELSE runErr,
                      end |-> end] >>
  /\ UNCHANGED <<ssh_keys, pushVars, authVars, storeVars, sysVars, httpVars>>

\* ------------------------------------------------------------ git children
\* The connections served at the same time, and the chunks one child writes.
MaxProcs == 2
MaxChunks == 2

Fronts == {"ssh", "http"}
ProcRepos == {"proj", "lib"}

\* No handler has started a child, and the server process runs.
NoProcs == procs = [main |-> "serving", conns |-> << >>]

\* filepath.Join(s.cfg.ReposPath(), repoName+".git")
ProcRepoPath(repoName) == <<"repos", repoName, ".git">>

\* exec.Cmd.Start under a context: a context that is already done starts nothing.
Start(ctx) == IF ctx = "done" THEN "not started" ELSE "running"

\* A command that is not bound to any context: nothing ever kills it.
CommandContext_Background(ctx, child) == child

\* exec.CommandContext: once the context is done, the watcher of a running
\* command calls os.Process.Kill on it.
CommandContext(ctx, child) ==
  IF ctx = "done" /\ child = "running" THEN "killed" ELSE child

\* Every child's standard output bound to the first connection.
Stdout_Shared(i) == 1

\* gitCmd.Stdout = sess, and Stdout: w: the connection a child's output goes to
\* is the one whose handler started it.
Stdout(i) == i

\* What Run returns for a child that ended.
RunError(child, code) ==
  CASE child = "not started" -> "not started"
    [] child = "killed"      -> "signal: killed"
    [] code # 0              -> "exit status 1"
    [] OTHER                 -> "nil"

\* What the client is told when the handler returns: the SSH session's exit
\* status, or the HTTP status, which was written as 200 before the child ran.
ReturnStatus(front, runErr) ==
  IF front = "ssh" THEN sessionExit(runErr) ELSE 200

\* A connection whose handler reached the git child: handleSession line 77,
\* gitInfoRefs line 239, gitUploadPack line 281.
NewProc(front, repo) ==
  [front |-> front, repo |-> repo, ctx |-> "live", child |-> "none",
   dir |-> << >>, code |-> NotExited, out |-> << >>, written |-> 0,
   status |-> NotExited]

ProcIds == 1 .. Len(procs.conns)

\* The server accepts a connection and its handler gets as far as the child.
ProcAccept ==
  /\ procs.main = "serving"
  /\ Len(procs.conns) < MaxProcs
  /\ \E front \in Fronts, repo \in ProcRepos :
       procs' = [procs EXCEPT !.conns = Append(@, NewProc(front, repo))]
  /\ UNCHANGED <<accessVars, bootVars, tempVars, pkt, config, setupVars, logCall>>

\* gitCmd.Run, c.Run: the child is started in the repository's directory.
ProcStart ==
  /\ procs.main # "exited"
  /\ \E i \in ProcIds :
       /\ procs.conns[i].child = "none"
       /\ procs' = [procs EXCEPT !.conns[i].child = Start(procs.conns[i].ctx),
                                 !.conns[i].dir = ProcRepoPath(procs.conns[i].repo)]
  /\ UNCHANGED <<accessVars, bootVars, tempVars, pkt, config, setupVars, logCall>>

\* The child writes the next chunk of its repository to its standard output.
\* Once the server process is gone the pipe has no reader and nothing arrives.
ChildWrite ==
  /\ procs.main # "exited"
  /\ \E i \in ProcIds :
       LET p == procs.conns[i] IN
       /\ p.child = "running"
       /\ p.written < MaxChunks
       /\ procs' = [procs EXCEPT
            !.conns[i].written = @ + 1,
            !.conns[Stdout(i)].out = Append(@, <<p.dir, p.written + 1>>)]
  /\ UNCHANGED <<accessVars, bootVars, tempVars, pkt, config, setupVars, logCall>>

\* The child ends by itself, with success or with a failure.
ChildExit ==
  /\ \E i \in ProcIds, code \in {0, 1} :
       /\ procs.conns[i].child = "running"
       /\ procs' = [procs EXCEPT !.conns[i].child = "exited",
                                 !.conns[i].code = code]
  /\ UNCHANGED <<accessVars, bootVars, tempVars, pkt, config, setupVars, logCall>>

\* The client of one connection goes away: its context is done.
Disconnect ==
  /\ procs.main = "serving"
  /\ \E i \in ProcIds :
       /\ procs.conns[i].ctx = "live"
       /\ procs.conns[i].status = NotExited
       /\ procs' = [procs EXCEPT !.conns[i].ctx = "done"]
  /\ UNCHANGED <<accessVars, bootVars, tempVars, pkt, config, setupVars, logCall>>

\* main, lines 95-98: on SIGINT or SIGTERM both servers are closed, which closes
\* the live connections and so ends their contexts.
ServerClose ==
  /\ procs.main = "serving"
  /\ procs' = [main |-> "closed",
               conns |-> [i \in ProcIds |-> [procs.conns[i] EXCEPT !.ctx = "done"]]]
  /\ UNCHANGED <<accessVars, bootVars, tempVars, pkt, config, setupVars, logCall>>

\* main, line 99: main returns right after the two Close calls, and the process
\* ends with whatever its goroutines had not done yet.
MainReturn ==
  /\ procs.main = "closed"
  /\ procs' = [procs EXCEPT !.main = "exited"]
  /\ UNCHANGED <<accessVars, bootVars, tempVars, pkt, config, setupVars, logCall>>

\* The watcher goroutine of exec.CommandContext, while the process lives.
ProcKill ==
  /\ procs.main # "exited"
  /\ \E i \in ProcIds :
       /\ procs.conns[i].ctx = "done"
       /\ procs.conns[i].child = "running"
       /\ procs' = [procs EXCEPT !.conns[i].child =
                      CommandContext(procs.conns[i].ctx, procs.conns[i].child)]
  /\ UNCHANGED <<accessVars, bootVars, tempVars, pkt, config, setupVars, logCall>>

\* A child that outlives the server process: the pipes to its standard streams
\* have lost their other end, so git dies of the hang-up.
ChildHangup ==
  /\ procs.main = "exited"
  /\ \E i \in ProcIds :
       /\ procs.conns[i].child = "running"
       /\ procs' = [procs EXCEPT !.conns[i].child = "hung up"]
  /\ UNCHANGED <<accessVars, bootVars, tempVars, pkt, config, setupVars, logCall>>

\* Run returned: handleSession lines 84-94 report the session's exit status,
\* the HTTP handlers only log an error.
ProcReturn ==
  /\ procs.main # "exited"
  /\ \E i \in ProcIds :
       LET p == procs.conns[i] IN
       /\ p.child \in {"not started", "exited", "killed"}
       /\ p.status = NotExited
       /\ procs' = [procs EXCEPT !.conns[i].status =
                      ReturnStatus(p.front, RunError(p.child, p.code))]
  /\ UNCHANGED <<accessVars, bootVars, tempVars, pkt, config, setupVars, logCall>>

\* ------------------------------------------------------------------- boot
\* The boots of the server that are followed.
MaxBoots == 3

\* The host key file: whether it exists, the key in it, whether its content is
\* a private key, and what its mode lets the server do with it.
NoFile == [exists |-> FALSE, key |-> 0, parses |-> FALSE, mode |-> "-"]
FileModes == {"rw", "w", "-"}

NoSigner == << >>

\* The server before main ran, and between two runs.
ServerDown == [phase |-> "down", fp |-> NoSigner, ssh |-> "none", http |-> "none",
               exit |-> NotExited]

NoBoot ==
  /\ hostKeyFile = NoFile
  /\ server = ServerDown
  /\ boots = << >>

\* os.ReadFile succeeds on a file that exists and may be read.
ReadFile(file) == file.exists /\ file.mode = "rw"

\* os.WriteFile: O_WRONLY|O_CREATE|O_TRUNC: a new file gets mode 0600, a file
\* that exists is truncated if it may be written, and keeps its mode.
CanWrite(file) == ~file.exists \/ file.mode \in {"rw", "w"}
WriteFile(file, key) ==
  [exists |-> TRUE, key |-> key, parses |-> TRUE,
   mode |-> IF file.exists THEN file.mode ELSE "rw"]

\* ensureHostKey for the boot that generates key `fresh` if it generates one:
\* the file afterwards, the signer and the error.
ensureHostKey(file, fresh, fault) ==
  IF ReadFile(file)
    THEN IF file.parses
           THEN [file |-> file, signer |-> FingerprintSHA256(file.key), err |-> "nil"]
           ELSE [file |-> file, signer |-> NoSigner, err |-> "parse host key"]
  ELSE IF fault = "mkdir"
    THEN [file |-> file, signer |-> NoSigner, err |-> "create key directory"]
  ELSE IF fault = "write" \/ ~CanWrite(file)
    THEN [file |-> file, signer |-> NoSigner, err |-> "write host key"]
  ELSE [file |-> WriteFile(file, fresh), signer |-> FingerprintSHA256(fresh),
        err |-> "nil"]

\* main, lines 34-78: configuration, directories, store, then sshsrv.New, which
\* ensures the host key; any error is fatal: os.Exit(1).
Boot ==
  /\ server.phase \in {"down", "exited"}
  /\ Len(boots) < MaxBoots
  /\ \E fault \in {"none", "store", "mkdir", "write"} :
       LET r == IF fault = "store"
                  THEN [file |-> hostKeyFile, signer |-> NoSigner,
                        err |-> "open database"]
                  ELSE ensureHostKey(hostKeyFile, Len(boots) + 1, fault) IN
       /\ hostKeyFile' = r.file
       /\ boots' = Append(boots, [before |-> hostKeyFile, after |-> r.file,
                                  fp |-> r.signer, err |-> r.err])
       /\ server' = IF r.err = "nil"
                      THEN [ServerDown EXCEPT !.phase = "running", !.fp = r.signer]
                      ELSE [ServerDown EXCEPT !.phase = "exited", !.exit = 1]
  /\ UNCHANGED <<accessVars, procs, tempVars, pkt, config, setupVars, logCall>>

\* A listener that cannot bind ends the process with exit code 1.
listenFailed_Fatal(srv, front) ==
  [phase |-> "exited", fp |-> srv.fp, ssh |-> "failed", http |-> "failed", exit |-> 1]

\* main, lines 82-92: ListenAndServe returned an error: it is logged, and that
\* is all.
listenFailed(srv, front) ==
  IF front = "ssh" THEN [srv EXCEPT !.ssh = "failed"]
                   ELSE [srv EXCEPT !.http = "failed"]

\* The goroutine of main, lines 82-86: sshServer.ListenAndServe.
ListenSSH ==
  /\ server.phase = "running"
  /\ server.ssh = "none"
  /\ \E bound \in BOOLEAN :
       server' = IF bound THEN [server EXCEPT !.ssh = "listening"]
                          ELSE listenFailed(server, "ssh")
  /\ UNCHANGED <<accessVars, procs, hostKeyFile, boots, tempVars, pkt, config, setupVars, logCall>>

\* The goroutine of main, lines 88-92: httpServer.ListenAndServe.
ListenHTTP ==
  /\ server.phase = "running"
  /\ server.http = "none"
  /\ \E bound \in BOOLEAN :
       server' = IF bound THEN [server EXCEPT !.http = "listening"]
                          ELSE listenFailed(server, "http")
  /\ UNCHANGED <<accessVars, procs, hostKeyFile, boots, tempVars, pkt, config, setupVars, logCall>>

\* main, lines 95-99: SIGINT or SIGTERM: both servers closed, main returns.
Shutdown ==
  /\ server.phase = "running"
  /\ server' = [server EXCEPT
       !.phase = "exited", !.exit = 0,
       !.ssh = IF @ = "listening" THEN "closed" ELSE @,
       !.http = IF @ = "listening" THEN "closed" ELSE @]
  /\ UNCHANGED <<accessVars, procs, hostKeyFile, boots, tempVars, pkt, config, setupVars, logCall>>

\* Between two boots somebody removes the key file, replaces its content with
\* something that is no key, or changes its mode.
KeyFileChange ==
  /\ server.phase = "exited"
  /\ hostKeyFile.exists
  /\ \/ hostKeyFile' = NoFile
     \/ hostKeyFile.parses /\ hostKeyFile' = [hostKeyFile EXCEPT !.parses = FALSE]
     \/ \E mode \in FileModes \ {hostKeyFile.mode} :
          hostKeyFile' = [hostKeyFile EXCEPT !.mode = mode]
  /\ UNCHANGED <<accessVars, procs, server, boots, tempVars, pkt, config, setupVars, logCall>>

\* ------------------------------------------------ the allowed-signers file
\* The runs of `origin hook pre-receive` that are followed: git starts one for
\* every push, and pushes to different repositories run at the same time.
MaxHooks == 2

\* The names os.CreateTemp("", "origin-allowed-signers-*") can come up with.
TempNames == {"origin-allowed-signers-1", "origin-allowed-signers-2",
              "origin-allowed-signers-3"}

NoHooks ==
  /\ tmpdir = {}
  /\ hookRuns = << >>

NewHook == [pc |-> "start", path |-> "", how |-> "running", exit |-> NotExited]

\* os.CreateTemp opens with O_EXCL: the names it can return are those no file
\* in the directory has.
CreateTemp(dir) == TempNames \ dir

\* A cleanup that leaves the file where it is.
cleanup_Keep(dir, name) == dir

\* cleanup, lines 135-137: os.Remove(tmpFile.Name()).
cleanup(dir, name) == dir \ {name}

\* runHook: exit status 1 when VerifyPreReceive returned an error.
HookExit(run, how) ==
  [run EXCEPT !.pc = "exited", !.how = how,
              !.exit = IF how = "accept" THEN 0 ELSE 1]

\* git receive-pack starts the pre-receive hook of a push.
HookSpawn ==
  /\ Len(hookRuns) < MaxHooks
  /\ hookRuns' = Append(hookRuns, NewHook)
  /\ UNCHANGED <<accessVars, procs, bootVars, tmpdir, pkt, config, setupVars, logCall>>

\* VerifyPreReceive, lines 37-41: buildAllowedSigners queries the keys, creates
\* the file and writes it; a failed write removes the file again; any error
\* ends the hook before the file is used.
HookBuild ==
  /\ \E i \in 1 .. Len(hookRuns),
        fault \in {"none", "query ssh keys", "no SSH keys", "write allowed signers"} :
       /\ hookRuns[i].pc = "start"
       /\ IF fault \in {"query ssh keys", "no SSH keys"}
            THEN /\ hookRuns' = [hookRuns EXCEPT ![i] = HookExit(@, fault)]
                 /\ UNCHANGED tmpdir
          ELSE IF CreateTemp(tmpdir) = {}
            THEN /\ hookRuns' = [hookRuns EXCEPT ![i] = HookExit(@, "create temp file")]
                 /\ UNCHANGED tmpdir
          ELSE \E name \in CreateTemp(tmpdir) :
                 IF fault = "write allowed signers"
                   THEN /\ hookRuns' = [hookRuns EXCEPT ![i] = HookExit(@, fault)]
                        /\ tmpdir' = (tmpdir \cup {name}) \ {name}
                   ELSE /\ hookRuns' = [hookRuns EXCEPT ![i].pc = "verifying",
                                                        ![i].path = name]
                        /\ tmpdir' = tmpdir \cup {name}
  /\ UNCHANGED <<accessVars, procs, bootVars, pkt, config, setupVars, logCall>>

\* VerifyPreReceive, lines 43-89: every return after line 41 runs the deferred
\* cleanup before runHook exits: all commits verified, a commit that does not
\* verify, rev-list failing, and the scanner's error.
HookReturn ==
  /\ \E i \in 1 .. Len(hookRuns),
        how \in {"accept", "commit", "list commits", "read stdin"} :
       /\ hookRuns[i].pc = "verifying"
       /\ tmpdir' = cleanup(tmpdir, hookRuns[i].path)
       /\ hookRuns' = [hookRuns EXCEPT ![i] = HookExit(@, how)]
  /\ UNCHANGED <<accessVars, procs, bootVars, pkt, config, setupVars, logCall>>

\* ---------------------------------------------------------------- pkt-lines
\* Strings are sequences of bytes. The short ones are all those of up to
\* MaxStrLen bytes over three bytes; the long ones are runs of one byte whose
\* lengths lie around the places where the prefix gets a digit more.
MaxStrLen == 4
PktBytes == {"#", "a", "\n"}
LongLengths == {11, 251, 4091, 65530, 65531}

ShortStrings == UNION {[1 .. n -> PktBytes] : n \in 0 .. MaxStrLen}
LongStrings == {[k \in 1 .. n |-> "a"] : n \in LongLengths}

\* The string gitInfoRefs writes, line 236.
ServiceHeader ==
  <<"#", " ", "s", "e", "r", "v", "i", "c", "e", "=", "g", "i", "t", "-",
    "u", "p", "l", "o", "a", "d", "-", "p", "a", "c", "k">>

PktStrings == ShortStrings \cup LongStrings \cup {ServiceHeader}

NoPkt == pkt = [s |-> << >>, w |-> << >>, done |-> FALSE]

HexDigits == <<"0", "1", "2", "3", "4", "5", "6", "7", "8", "9",
               "a", "b", "c", "d", "e", "f">>

\* %x: the digits of n in base sixteen, as many as n needs.
RECURSIVE FormatHex(_)
FormatHex(n) ==
  IF n < 16 THEN <<HexDigits[n + 1]>>
            ELSE FormatHex(n \div 16) \o <<HexDigits[(n % 16) + 1]>>

\* %04x: padded with zeros to four digits, and longer if n needs more.
Sprintf04x(n) ==
  LET digits == FormatHex(n) IN
  IF Len(digits) >= 4 THEN digits
  ELSE [k \in 1 .. 4 - Len(digits) |-> "0"] \o digits

\* WritePktline: fmt.Sprintf("%04x%s\n", len(s)+5, s) written to w, then "0000".
WritePktline(w, s) ==
  w \o Sprintf04x(Len(s) + 5) \o s \o <<"\n">> \o <<"0", "0", "0", "0">>

CallWritePktline ==
  /\ ~pkt.done
  /\ pkt' = [pkt EXCEPT !.w = WritePktline(@, pkt.s), !.done = TRUE]
  /\ UNCHANGED <<accessVars, procs, bootVars, tempVars, config, setupVars, logCall>>

\* ------------------------------------------------------------ configuration
\* A path is its segments and whether it starts at the root; a URL is a
\* sequence of symbols, of which "/" is one.
MaxSlashes == 3

Path(abs, parts) == [abs |-> abs, parts |-> parts]
EmptyPath == Path(FALSE, << >>)
Cwd == Path(TRUE, <<"srv">>)

IsAbs(p) == p.abs

\* filepath.Join(a, b) for a relative b.
Join(a, b) == Path(a.abs, a.parts \o b.parts)

\* filepath.Abs: a relative path is joined to the working directory.
Abs(p) == IF IsAbs(p) THEN p ELSE Join(Cwd, p)

Slashes(n) == [k \in 1 .. n |-> "/"]

\* The values public_url is given: a host, or a host and a path, followed by
\* no, one or several slashes.
PublicURLs ==
  {base \o Slashes(n) : base \in {<<"https://h">>, <<"https://h", "/", "git">>},
                        n \in 0 .. MaxSlashes}

\* DefaultConfig, with the paths a file or the environment may set.
DefaultConfig ==
  [DataPath |-> Path(FALSE, <<"data">>), PublicURL |-> <<"https://localhost:3443">>,
   HostKeyPath |-> EmptyPath, TLSCertPath |-> EmptyPath, TLSKeyPath |-> EmptyPath]

Configs ==
  [DataPath : {Path(FALSE, <<"data">>), Path(TRUE, <<"var", "origin">>)},
   PublicURL : PublicURLs,
   HostKeyPath : {EmptyPath, Path(FALSE, <<"ssh", "key">>), Path(TRUE, <<"etc", "key">>)},
   TLSCertPath : {EmptyPath, Path(FALSE, <<"cert.pem">>)},
   TLSKeyPath : {EmptyPath, Path(TRUE, <<"etc", "key.pem">>)}]

NoConfig == config = [loaded |-> DefaultConfig, valid |-> DefaultConfig, done |-> FALSE]

\* The path options of Validate: a path that is set and relative is resolved
\* against the data directory.
Resolve(dataPath, p) ==
  IF p # EmptyPath /\ ~IsAbs(p) THEN Join(dataPath, p) ELSE p

\* Config.Validate.
Validate(c) ==
  LET dataPath == Abs(c.DataPath) IN
  [DataPath |-> dataPath,
   PublicURL |-> TrimSuffix(c.PublicURL, "/"),
   HostKeyPath |-> Resolve(dataPath, c.HostKeyPath),
   TLSCertPath |-> Resolve(dataPath, c.TLSCertPath),
   TLSKeyPath |-> Resolve(dataPath, c.TLSKeyPath)]

\* Load, lines 63-69: the configuration read from file and environment is
\* validated.
LoadConfig ==
  /\ ~config.done
  /\ config' = [config EXCEPT !.valid = Validate(config.loaded), !.done = TRUE]
  /\ UNCHANGED <<accessVars, procs, bootVars, tempVars, pkt, setupVars, logCall>>

\* ------------------------------------------------------------ first-run setup
\* The setup POSTs that are followed; they may be handled at the same time.
MaxSetups == 2

\* No row for the key.
NoValue == <<"no row">>

NoSetup ==
  /\ settings = [password_hash |-> NoValue, admin_username |-> NoValue, hashBy |-> 0]
  /\ setupReqs = << >>
  /\ webSessions = {}

\* The form values: a username (none, plain, or with blanks around it), a
\* password of 7, 8 or 9 characters, and a confirmation that matches or not.
FormUsernames == {<< >>, <<"bob">>, <<Blank, "eve", Blank>>}
FormPasswords == {[k \in 1 .. 7 |-> "x"], [k \in 1 .. 8 |-> "y"], [k \in 1 .. 9 |-> "z"]}
SetupForms ==
  [username : FormUsernames, password : FormPasswords, confirmed : BOOLEAN]

\* bcrypt.GenerateFromPassword: a hash that is not the password.
BcryptHash(password) == <<"bcrypt", password>>

\* needsSetup: true when the query fails or finds no password_hash row.
needsSetup(table, dbOK) == ~dbOK \/ table.password_hash = NoValue

\* handleSetupPost, lines 47-53: the username trimmed, `admin` when empty.
SetupUsername(form) ==
  LET username == Trim(form.username, {Blank}) IN
  IF username = << >> THEN <<"admin">> ELSE username

\* A setup POST arrives.
SetupArrive ==
  /\ Len(setupReqs) < MaxSetups
  /\ \E form \in SetupForms :
       setupReqs' = Append(setupReqs, [pc |-> "new", form |-> form, answer |-> "none"])
  /\ UNCHANGED <<accessVars, procs, bootVars, tempVars, pkt, config, settings,
                 webSessions, logCall>>

\* handleSetupPost, lines 42-45: redirect away unless setup is needed.
SetupCheck ==
  /\ \E r \in 1 .. Len(setupReqs), dbOK \in BOOLEAN :
       /\ setupReqs[r].pc = "new"
       /\ setupReqs' = [setupReqs EXCEPT ![r] =
            IF needsSetup(settings, dbOK)
              THEN [@ EXCEPT !.pc = "checked"]
              ELSE [@ EXCEPT !.pc = "done", !.answer = "redirect"]]
  /\ UNCHANGED <<accessVars, procs, bootVars, tempVars, pkt, config, settings,
                 webSessions, logCall>>

\* Line 76: INSERT INTO settings (key, value) VALUES ('password_hash', ?): the
\* primary key refuses a second row, and the error is not looked at.
insertPasswordHash(table, r, hash, dbOK) ==
  IF dbOK /\ table.password_hash = NoValue
    THEN [table EXCEPT !.password_hash = hash, !.hashBy = r]
    ELSE table

\* handleSetupPost, lines 58-76: the password checked, hashed and inserted.
SetupInsert ==
  /\ \E r \in 1 .. Len(setupReqs), dbOK \in BOOLEAN :
       LET form == setupReqs[r].form IN
       /\ setupReqs[r].pc = "checked"
       /\ IF Len(form.password) < 8 \/ ~form.confirmed
            THEN /\ setupReqs' = [setupReqs EXCEPT ![r].pc = "done",
                                                   ![r].answer = "error"]
                 /\ UNCHANGED settings
            ELSE /\ setupReqs' = [setupReqs EXCEPT ![r].pc = "inserted"]
                 /\ settings' = insertPasswordHash(settings, r,
                                                   BcryptHash(form.password), dbOK)
  /\ UNCHANGED <<accessVars, procs, bootVars, tempVars, pkt, config, webSessions, logCall>>

\* handleSetupPost, lines 77-83: INSERT OR REPLACE of the username, then the
\* session is created and the client is redirected as logged in.
SetupFinish ==
  /\ \E r \in 1 .. Len(setupReqs), dbOK \in BOOLEAN :
       /\ setupReqs[r].pc = "inserted"
       /\ setupReqs' = [setupReqs EXCEPT ![r].pc = "done", ![r].answer = "logged in"]
       /\ IF dbOK
            THEN /\ settings' = [settings EXCEPT
                       !.admin_username = SetupUsername(setupReqs[r].form)]
                 /\ webSessions' = webSessions \cup {r}
            ELSE UNCHANGED <<settings, webSessions>>
  /\ UNCHANGED <<accessVars, procs, bootVars, tempVars, pkt, config, logCall>>

\* ------------------------------------------------------------ commit history
\* The histories, pages and page sizes Log is called with.
MaxHistory == 6
MaxPage == 3
MaxPerPage == 3

\* repo.Log from the head of a history of n commits: newest first.
History(n) == [k \in 1 .. n |-> n - k + 1]

NoResult == [commits |-> << >>, hasMore |-> FALSE, err |-> "none"]

NoLog ==
  logCall = [history |-> History(0), refOK |-> TRUE, page |-> 0, perPage |-> 1,
             result |-> NoResult, done |-> FALSE]

\* commitToInfo: the view's record of a commit.
commitToInfo(c) == [Hash |-> c]

\* Log, lines 173-186: up to perPage+1 commits are read from the iterator at
\* position pos, and the first perPage of them are kept.
RECURSIVE Fetch(_, _, _, _, _)
Fetch(history, pos, i, perPage, commits) ==
  IF i >= perPage + 1 \/ pos > Len(history) THEN commits
  ELSE Fetch(history, pos + 1, i + 1, perPage,
             IF i < perPage THEN Append(commits, commitToInfo(history[pos]))
                            ELSE commits)

\* Log: the ref resolved, page*perPage commits skipped (an iterator that ends
\* while skipping gives an empty page), the page fetched, and hasMore set to
\* len(commits) == perPage.
Log(history, refOK, page, perPage) ==
  LET skip == page * perPage IN
  IF ~refOK
    THEN [commits |-> << >>, hasMore |-> FALSE, err |-> "unknown ref"]
  ELSE IF skip > Len(history)
    THEN [commits |-> << >>, hasMore |-> FALSE, err |-> "nil"]
  ELSE LET commits == Fetch(history, skip + 1, 0, perPage, << >>) IN
       [commits |-> commits, hasMore |-> Len(commits) = perPage, err |-> "nil"]

\* handleLog, line 274, and any other caller.
CallLog ==
  /\ ~logCall.done
  /\ logCall' = [logCall EXCEPT
       !.result = Log(logCall.history, logCall.refOK, logCall.page, logCall.perPage),
       !.done = TRUE]
  /\ UNCHANGED <<accessVars, procs, bootVars, tempVars, pkt, config, setupVars>>

\* ------------------------------------------------------------- the machine
InitPush ==
  /\ refs = [r \in RefNames |-> ZeroSHA]
  /\ pc = "idle"
  /\ env = {}
  /\ pusher = NoKey
  /\ sessEnd = NoSessEnd
  /\ stdin = << >>
  /\ refsBefore = refs
  /\ ran = {}
  /\ scanned = 0
  /\ allowed = {}
  /\ manifest = FALSE
  /\ listed = << >>
  /\ examined = << >>
  /\ preErr = NoErr
  /\ preStderr = << >>
  /\ preExit = NotExited
  /\ keysAtHook = {}
  /\ faults = {}
  /\ webhooks = {}
  /\ pending = {}
  /\ delivered = {}
  /\ lastOutcome = "none"
  /\ postErr = NoErr
  /\ postExit = NotExited

\* The access plane before any connection.
InitAccess ==
  /\ ssh_keys = {}
  /\ InitPush
  /\ conns = << >>
  /\ repositories = [n \in StoreNames |-> "absent"]
  /\ dirs = {}
  /\ exchange = << >>
  /\ children = {}
  /\ webhookTable = WebhookRows
  /\ session = << >>

Init ==
  /\ InitAccess
  /\ NoProcs
  /\ NoBoot
  /\ NoHooks
  /\ NoPkt
  /\ NoConfig
  /\ NoSetup
  /\ NoLog

Next ==
  \/ KeyAdmin
  \/ ReceivePack
  \/ PreStart
  \/ PreLine
  \/ PreEnd
  \/ HookVerdict
  \/ PostStart
  \/ PostLine
  \/ PostEnd
  \/ DeliverFinish
  \/ PushDone

Spec == Init /\ [][Next]_vars

NextAuth ==
  \/ KeyAdmin
  \/ SSHConnect

SpecAuth == Init /\ [][NextAuth]_vars

NextHttp ==
  \/ CreateRepo
  \/ UpdateRepoSettings
  \/ DeleteRepo
  \/ HttpInfoRefs
  \/ HttpUploadPack
  \/ HttpReceivePack

SpecHttp == Init /\ [][NextHttp]_vars

\* `origin hook post-receive` as a process of its own: git starts it after a push
\* it accepted, with the push's lines on stdin, over a webhook table that holds,
\* or does not hold, a URL with the separator in it.
SeparatorRows ==
  { [repo |-> "proj",  url |-> <<"U5", "|", "q">>, secret |-> << >>, active |-> TRUE],
    [repo |-> "proj",  url |-> <<"U2">>, secret |-> <<"s2">>, active |-> TRUE],
    [repo |-> "proj",  url |-> <<"U5">>, secret |-> <<"s5">>, active |-> FALSE] }

InitPost ==
  /\ ssh_keys = Keys
  /\ refsBefore = [r \in RefNames |-> ZeroSHA]
  /\ stdin \in StdinChoices(refsBefore)
  /\ refs = ApplyUpdates(refsBefore, stdin)
  /\ pc = "post_start"
  /\ env \in EnvChoices
  /\ pusher = "K1"
  /\ sessEnd = NoSessEnd
  /\ ran = {"pre-receive", "post-receive"}
  /\ scanned = 0
  /\ allowed = {}
  /\ manifest = FALSE
  /\ listed = << >>
  /\ examined = << >>
  /\ preErr = NoErr
  /\ preStderr = << >>
  /\ preExit = 0
  /\ keysAtHook = {}
  /\ faults = {}
  /\ webhooks = {}
  /\ pending = {}
  /\ delivered = {}
  /\ lastOutcome = "none"
  /\ postErr = NoErr
  /\ postExit = NotExited
  /\ conns = << >>
  /\ repositories = [n \in StoreNames |-> IF n = RepoName THEN "public" ELSE "absent"]
  /\ dirs = {RepoName}
  /\ exchange = << >>
  /\ children = {}
  /\ session = << >>
  /\ webhookTable \in {WebhookRows, SeparatorRows}
  /\ NoProcs
  /\ NoBoot
  /\ NoHooks
  /\ NoPkt
  /\ NoConfig
  /\ NoSetup
  /\ NoLog

NextPost ==
  \/ PostStart
  \/ PostLine
  \/ PostEnd
  \/ DeliverFinish

SpecPost == InitPost /\ [][NextPost]_vars

\* The admin pages that create, change, rename and delete repositories.
NextAdmin ==
  \/ CreateRepo
  \/ UpdateRepoSettings
  \/ RenameRepo
  \/ DeleteRepo

SpecAdmin == Init /\ [][NextAdmin]_vars

\* Repositories being created while clients read over HTTP; nothing is deleted,
\* renamed or changed.
NextCreate ==
  \/ CreateRepo
  \/ HttpInfoRefs
  \/ HttpUploadPack
  \/ HttpReceivePack

SpecCreate == Init /\ [][NextCreate]_vars

NextSsh ==
  \/ CreateRepo
  \/ DeleteRepo
  \/ SshSession

SpecSsh == Init /\ [][NextSsh]_vars

\* The git children of the two front-ends, from the connection's arrival to the
\* handler's return, with clients leaving and the server shutting down.
NextProc ==
  \/ ProcAccept
  \/ ProcStart
  \/ ChildWrite
  \/ ChildExit
  \/ Disconnect
  \/ ServerClose
  \/ MainReturn
  \/ ProcKill
  \/ ChildHangup
  \/ ProcReturn

SpecProc == Init /\ [][NextProc]_vars

\* The same with what the schedulers give: a goroutine that can run does run
\* while the process lives, and a child whose pipes were closed gets to its end.
SpecProcLive == SpecProc /\ WF_vars(ProcKill) /\ WF_vars(ChildHangup)

\* The server booted, shut down and booted again, with the host key file
\* changing in between.
NextBoot ==
  \/ Boot
  \/ ListenSSH
  \/ ListenHTTP
  \/ Shutdown
  \/ KeyFileChange

SpecBoot == Init /\ [][NextBoot]_vars

\* Pre-receive hooks of concurrent pushes, seen from the temporary directory.
NextTemp ==
  \/ HookSpawn
  \/ HookBuild
  \/ HookReturn

SpecTemp == Init /\ [][NextTemp]_vars

\* WritePktline called once with each of the strings.
InitPkt ==
  /\ InitAccess
  /\ NoProcs
  /\ NoBoot
  /\ NoHooks
  /\ NoConfig
  /\ NoSetup
  /\ NoLog
  /\ pkt \in {[s |-> s, w |-> << >>, done |-> FALSE] : s \in PktStrings}

NextPkt ==
  \/ CallWritePktline

SpecPkt == InitPkt /\ [][NextPkt]_vars

\* Validate applied to each of the configurations.
InitConfig ==
  /\ InitAccess
  /\ NoProcs
  /\ NoBoot
  /\ NoHooks
  /\ NoPkt
  /\ NoSetup
  /\ NoLog
  /\ config \in {[loaded |-> c, valid |-> c, done |-> FALSE] : c \in Configs}

NextConfig ==
  \/ LoadConfig

SpecConfig == InitConfig /\ [][NextConfig]_vars

\* Setup POSTs handled concurrently, statement by statement.
NextSetup ==
  \/ SetupArrive
  \/ SetupCheck
  \/ SetupInsert
  \/ SetupFinish

SpecSetup == Init /\ [][NextSetup]_vars

\* Log called once with each history, page and page size.
InitLog ==
  /\ InitAccess
  /\ NoProcs
  /\ NoBoot
  /\ NoHooks
  /\ NoPkt
  /\ NoConfig
  /\ NoSetup
  /\ logCall \in {[history |-> History(n), refOK |-> refOK, page |-> page,
                   perPage |-> perPage, result |-> NoResult, done |-> FALSE] :
                  n \in 0 .. MaxHistory, refOK \in BOOLEAN, page \in 0 .. MaxPage,
                  perPage \in 1 .. MaxPerPage}

NextLog ==
  \/ CallLog

SpecLog == InitLog /\ [][NextLog]_vars

\* ------------------------------------------------------------ the claims
\* The definitions below state what is checked; they read the commit graph
\* directly, not through the hook's operators.

\* Whether commit c is `tip` or an ancestor of it.
RECURSIVE Reaches(_, _)
Reaches(tip, c) ==
  /\ tip # ZeroSHA
  /\ \/ tip = c
     \/ \E p \in Parents(tip) : Reaches(p, c)

\* The well-formed lines of the input, and those among them that do not delete.
ValidLines == {n \in 1 .. Len(stdin) : Len(stdin[n]) = 3}
NonDeletes == {n \in ValidLines : stdin[n][2] # ZeroSHA}
DeleteOnly == ValidLines # {} /\ NonDeletes = {}

\* The commits a ref update brings: for a new ref, those reachable from `new` and
\* from no ref the repository had before the push; else those reachable from
\* `new` and not from `old`.
CommitSet(n) ==
  LET old == stdin[n][1]
      new == stdin[n][2]
  IN IF old = ZeroSHA
       THEN {c \in Commits : /\ Reaches(new, c)
                             /\ \A r \in RefNames : ~Reaches(refsBefore[r], c)}
       ELSE {c \in Commits : Reaches(new, c) /\ ~Reaches(old, c)}

\* The commit sets of lines 1 .. m, in input order and newest first within a line.
RECURSIVE InOrder(_)
InOrder(m) ==
  IF m = 0 THEN << >>
  ELSE InOrder(m - 1) \o (IF m \in NonDeletes THEN Newest(CommitSet(m)) ELSE << >>)

Verifies(c, keys) == SignerOf(c) \in keys
AllVerify(keys) == \A n \in NonDeletes : \A c \in CommitSet(n) : Verifies(c, keys)

\* The hook could set itself up: both variables set and at least one key.
SetupPossible ==
  /\ {"ORIGIN_DATA_PATH", "ORIGIN_REPO_PATH"} \cap env = {}
  /\ keysAtHook # {}

\* C1 as stated: the hook exits 0 exactly when every commit of every non-delete
\* update verifies against the key table it ran with.
C1_AcceptIffAllVerify ==
  pc = "pre_exit" => (preExit = 0 <=> AllVerify(keysAtHook))

\* C1, amended: the hook exits 0 exactly when it could set itself up (both
\* variables set, at least one key), no operation of its own failed (key query,
\* manifest, commit listing, reading stdin) and every commit of every non-delete
\* update verifies; and when a commit fails, the commits examined are those of the
\* input up to and including the first that fails, none after it.
C1_AcceptIffSetupAndAllVerify ==
  pc = "pre_exit" =>
    /\ preExit \in {0, 1}
    /\ preExit = 0 <=> (SetupPossible /\ faults = {} /\ AllVerify(keysAtHook))
    /\ preErr.kind = "commit" =>
         LET k == Len(examined) IN
         /\ k >= 1
         /\ examined = SubSeq(InOrder(scanned), 1, k)
         /\ examined[k] = preErr.sha
         /\ examined[k] \in CommitSet(scanned)
         /\ ~Verifies(examined[k], keysAtHook)
         /\ \A j \in 1 .. k - 1 : Verifies(examined[j], keysAtHook)
         /\ \A i \in 1 .. Len(listed) : listed[i][1] <= scanned

\* A push of two updates is refused at a commit that is neither the first examined
\* nor the last listed, with a line still unread.
C1_Witness ==
  /\ pc = "pre_exit"
  /\ preErr.kind = "commit"
  /\ Len(examined) >= 2
  /\ scanned < Len(stdin)
  /\ Len(stdin) \in NonDeletes

\* C2: while a push that pre-receive refused is in hand, every ref has the value it
\* had before the push and post-receive has not been started.
C2_RejectChangesNoRef ==
  preErr # NoErr =>
    /\ refs = refsBefore
    /\ "post-receive" \notin ran
    /\ postExit = NotExited
    /\ pc \in {"pre_exit", "rejected"}

\* A push of two updates was refused at the second, the first having verified.
C2_Witness ==
  /\ pc = "rejected"
  /\ NonDeletes = {1, 2}
  /\ preErr.kind = "commit"
  /\ Len(listed) = 2
  /\ CommitSet(1) # {}
  /\ preErr.sha \in CommitSet(2)

\* C6 as stated: the post-receive process has not exited while a delivery it
\* started is still pending.
C6_NoExitWhilePending ==
  pc = "post_exit" => pending = {}

\* C7: post-receive exits 0 whatever happened in it, and from its start on the
\* refs are the ones the push set.
C7_PostNeverFails ==
  "post-receive" \in ran =>
    /\ postExit \in {NotExited, 0}
    /\ pc = "post_exit" => postExit = 0
    /\ refs = ApplyUpdates(refsBefore, stdin)
    /\ preErr = NoErr

\* post-receive returned an error (a variable it needs is not set) and exited.
C7_Witness ==
  /\ pc = "post_exit"
  /\ postErr # NoErr
  /\ refs # refsBefore

\* C8 as stated: a push of deletes only is accepted whatever the key table holds
\* (the hook's environment given and its own operations succeeding).
C8_DeleteOnlyAlwaysAccepted ==
  (pc = "pre_exit" /\ DeleteOnly /\ env = {} /\ faults = {}) => preExit = 0

\* C8, amended: a delete is skipped, no commit is listed or verified for it; a
\* push of deletes only is accepted exactly when the hook could set itself up and
\* none of its operations failed, so with an empty key table it is refused.
C8_DeleteSkippedNotVerified ==
  /\ \A i \in 1 .. Len(listed) : listed[i][1] \in NonDeletes
  /\ (pc = "pre_exit" /\ DeleteOnly) =>
       /\ examined = << >>
       /\ listed = << >>
       /\ preExit = 0 <=> (SetupPossible /\ faults = {})
       /\ keysAtHook = {} => preExit = 1

\* A push of deletes only was accepted without a commit being looked at.
C8_Witness ==
  /\ pc = "pre_exit"
  /\ DeleteOnly
  /\ preExit = 0
  /\ scanned = Len(stdin)

\* C9: the hook exits 1 whenever a variable it needs is unset, the key table is
\* empty, or the key query, the manifest, a commit listing or reading stdin failed.
C9_FailClosed ==
  (pc = "pre_exit" /\ (~SetupPossible \/ faults # {})) =>
    (preExit = 1 /\ preErr # NoErr)

\* The hook ran with its environment set, an empty key table and nothing to verify.
C9_Witness ==
  /\ pc = "pre_exit"
  /\ env = {}
  /\ keysAtHook = {}
  /\ faults = {}
  /\ NonDeletes = {}
  /\ preExit = 1

\* C10: the commits listed for an update are exactly its commit set, each once;
\* and an accepted push had every non-delete update listed and every commit of
\* every commit set examined.
C10_CommitSetOfUpdate ==
  /\ \A i \in 1 .. Len(listed) :
       LET n == listed[i][1]
           commits == listed[i][2]
       IN /\ n \in NonDeletes
          /\ Range(commits) = CommitSet(n)
          /\ Cardinality(Range(commits)) = Len(commits)
  /\ (pc = "pre_exit" /\ preErr = NoErr) =>
       /\ {listed[i][1] : i \in 1 .. Len(listed)} = NonDeletes
       /\ examined = InOrder(Len(stdin))

\* A new branch was accepted whose history is partly shared with an existing ref:
\* some of it was verified and some was not.
C10_Witness ==
  /\ pc = "pre_exit"
  /\ preErr = NoErr
  /\ \E n \in NonDeletes :
       /\ stdin[n][1] = ZeroSHA
       /\ CommitSet(n) # {}
       /\ \E c \in Commits : Reaches(stdin[n][2], c) /\ c \notin CommitSet(n)

\* C3 as stated: a connection is authenticated exactly when the key it presented
\* had a row at its query.
C3_AuthIffRow ==
  \A i \in 1 .. Len(conns) : conns[i].accepted <=> conns[i].row

\* C3, amended: a connection is authenticated exactly when its query succeeded
\* and found a row for the key, whatever earlier connections were answered; the
\* keys accepted now are the key table.
C3_AuthIffRowAndQueryOK ==
  /\ \A i \in 1 .. Len(conns) :
       conns[i].accepted <=> (conns[i].row /\ conns[i].dbOK)
  /\ {k \in Keys : publicKeyHandler(k, ssh_keys, TRUE)} = ssh_keys

\* A key was accepted, its row was deleted, and the next connection presenting it
\* was refused though its query succeeded.
C3_Witness ==
  \E i, j \in 1 .. Len(conns) :
    /\ i < j
    /\ conns[i].key = conns[j].key
    /\ conns[i].accepted
    /\ ~conns[j].accepted /\ conns[j].dbOK /\ ~conns[j].row

IsReceiveAttempt(x) ==
  \/ x.route = "POST git-receive-pack"
  \/ x.route = "GET info/refs" /\ x.service = "git-receive-pack"

IsUploadRequest(x) ==
  \/ x.route = "POST git-upload-pack"
  \/ x.route = "GET info/refs" /\ x.service = "git-upload-pack"

\* C4: every receive-pack attempt over HTTP is answered 403 and runs no child,
\* whatever the store holds for the name; no child of the HTTP front-end is a
\* receive-pack.
C4_HttpReceivePackDenied ==
  /\ \A i \in 1 .. Len(exchange) :
       IsReceiveAttempt(exchange[i]) =>
         /\ exchange[i].resp.status = 403
         /\ exchange[i].resp.child = NoChild
  /\ \A c \in children : c.service # "git-receive-pack"

\* The advertisement of receive-pack was asked for a name without a row.
C4_Witness ==
  /\ exchange # << >>
  /\ exchange[1].route = "GET info/refs"
  /\ exchange[1].service = "git-receive-pack"
  /\ exchange[1].row = "absent"
  /\ exchange[1].resp.status = 403

\* C5: a smart-git read of a private repository and one of a name without a row
\* get the very same response, 404 with the canonical body and no child; a child
\* is run only for a repository whose row says public, and it is upload-pack in
\* that repository's directory.
C5_PrivateLooksAbsent ==
  \A i \in 1 .. Len(exchange) :
    LET x == exchange[i] IN
    IsUploadRequest(x) =>
      /\ x.row \in {"absent", "private"} =>
           /\ x.resp.status = 404
           /\ x.resp.child = NoChild
           /\ x.resp.body = <<404, "Not Found">>
      /\ x.resp.child # NoChild =>
           /\ x.row = "public"
           /\ x.resp.child.service = "git-upload-pack"
           /\ x.resp.child.dir \in RepoNames
           /\ x.repo \in {<<x.resp.child.dir>>, <<x.resp.child.dir, ".git">>}

\* The advertisement of a private repository was asked for, the store answering.
C5_Witness ==
  /\ exchange # << >>
  /\ IsUploadRequest(exchange[1])
  /\ exchange[1].row = "private"
  /\ exchange[1].dbOK
  /\ exchange[1].resp.status = 404

\* The commits of the push's non-delete updates.
PushedCommits == UNION {CommitSet(n) : n \in NonDeletes}

\* C11: the verdict is a function of the input, the repository, the key table and
\* the hook's own failures, the same for every pusher: with its setup done and
\* nothing failing, the hook accepts exactly when each pushed commit is signed by
\* some key of the table, be it the pusher's or not, and be the pusher's key
\* still in the table or not.
C11_VerdictIgnoresPusher ==
  (pc = "pre_exit" /\ SetupPossible /\ faults = {}) =>
    /\ pusher \in Keys
    /\ preExit = 0 <=> \A c \in PushedCommits : \E k \in keysAtHook : SignerOf(c) = k
    /\ preExit = 1 <=> \E c \in PushedCommits : SignerOf(c) \notin keysAtHook

\* A push authenticated with one registered key, whose commits are all signed by
\* another registered key, was accepted.
C11_Witness ==
  /\ pc = "pre_exit"
  /\ preExit = 0
  /\ pusher \in keysAtHook
  /\ PushedCommits # {}
  /\ \A c \in PushedCommits : SignerOf(c) \in keysAtHook \ {pusher}

\* The fields of the last session's command, and the session's end.
SessArgs == Fields(session[1].cmd)
SessEnd == session[1].end

\* C12: a session runs a git child only if its command is not empty, has exactly
\* two fields, the first is git-upload-pack or git-receive-pack and the store,
\* asked, held a row for the name; the child is the service the first field
\* names, run in the directory of that one name, which the second field spells.
C12_ChildOnlyForKnownRepo ==
  (session # << >> /\ SessEnd.child # NoSshChild) =>
    /\ session[1].cmd # << >>
    /\ Len(SessArgs) = 2
    /\ SessArgs[1] \in {<<"git-upload-pack">>, <<"git-receive-pack">>}
    /\ session[1].dbOK
    /\ \E n \in session[1].rowNames :
         /\ SessEnd.child.dir = <<n>>
         /\ n \in Range(SessArgs[2])
    /\ SessArgs[1] = <<"git-upload-pack">> => SessEnd.child.service = "upload-pack"
    /\ SessArgs[1] = <<"git-receive-pack">> => SessEnd.child.service = "receive-pack"
    /\ SessEnd.stage = "invoke"

\* A receive-pack was run for a repository with a row, another name having none.
C12_Witness ==
  /\ session # << >>
  /\ SessEnd.child = [service |-> "receive-pack", dir |-> <<"proj">>]
  /\ session[1].rowNames = {"proj"}
  /\ session[1].runErr = "nil"

\* C13 as stated: each of the forms n, /n, n.git, /n.git, bare or wrapped in
\* single or double quotes, is looked up as n: with a row for n and the store
\* answering, a session naming n in any of these forms reaches the invoke stage
\* in the directory of n.
C13_EveryFormNormalised ==
  (/\ session # << >>
   /\ Len(SessArgs) = 2
   /\ SessArgs[1] \in {<<"git-upload-pack">>, <<"git-receive-pack">>}
   /\ session[1].dbOK
   /\ \E n \in session[1].rowNames :
        SessArgs[2] \in UNION {Wrapped(path) : path \in PathForms(n)})
  => /\ SessEnd.stage = "invoke"
     /\ \E n \in session[1].rowNames : SessEnd.child.dir = <<n>>

\* C15 as stated: a session that fails ends with status 1 and exactly one line
\* written to its stderr by the server, and one that fails before the invoke
\* stage runs no child.
C15_FailureOneLine ==
  (session # << >> /\ SessEnd.exit # 0) =>
    /\ SessEnd.exit = 1
    /\ Len(SessEnd.stderr) = 1
    /\ SessEnd.stage # "invoke" => SessEnd.child = NoSshChild

\* C14 as stated, the part on refused pushes: a session whose receive-pack had
\* its push refused by pre-receive ends with status 1.
C14_DeclinedPushExitsOne ==
  sessEnd.declined => sessEnd.exit = 1

\* C14, amended: a session that ran git exits 0 exactly when gitCmd.Run returned
\* no error and 1 otherwise, the child's status and nothing else; a push that
\* pre-receive refused changes no ref, and its session's status is that of
\* receive-pack, 0 included.
C14_ExitIsChildStatus ==
  /\ sessEnd # NoSessEnd =>
       /\ sessEnd.runErr \in RunErrors
       /\ sessEnd.exit = 0 <=> sessEnd.runErr = "nil"
       /\ sessEnd.exit = 1 <=> sessEnd.runErr # "nil"
       /\ pc = "idle"
  /\ pc = "rejected" => sessEnd = NoSessEnd /\ refs = refsBefore

\* pre-receive refused a push, receive-pack exited cleanly and so did the session.
C14_Witness ==
  /\ sessEnd.declined
  /\ sessEnd.runErr = "nil"
  /\ sessEnd.exit = 0
  /\ ssh_keys # {}

\* The lines of the hook's stderr that begin with the rejection prefix.
RejectionLines ==
  {i \in 1 .. Len(preStderr) : Head(preStderr[i].text) = "origin: push rejected"}

ActiveRows == {w \in webhookTable : w.repo = RepoName /\ w.active}

IsPrefix(a, b) == Len(a) <= Len(b) /\ a = SubSeq(b, 1, Len(a))

\* The deliveries of the run, started or ended: line, URL, body.
Posts ==
  {[line |-> d.line, url |-> d.wh.URL, body |-> d.payload, try |-> d.try] :
     d \in pending}
    \cup {[line |-> p.line, url |-> p.req.url, body |-> p.req.body, try |-> p.try] :
            p \in delivered}

Signatures(req) == {h[2] : h \in {x \in req.headers : x[1] = "X-Origin-Signature"}}

\* C20 as stated: a POST has the signature header exactly when its webhook's
\* secret is not empty, and the value is "sha256=" and the hex HMAC-SHA256 of the
\* body sent under that webhook's secret.
C20_SignedIffSecret ==
  \A p \in delivered :
    \E w \in ActiveRows :
      /\ w.url = p.req.url
      /\ Signatures(p.req) # {} <=> w.secret # << >>
      /\ \A v \in Signatures(p.req) :
           v = <<"sha256=", <<"hex", <<"hmac-sha256", w.secret, p.req.body>> >> >>

\* The names with a row, and the names with a directory under <data>/repos/.
RowNames == {n \in StoreNames : repositories[n] # "absent"}
DirNames == {n \in dirs : UnderRepos(n)}

\* C17 as stated: after any sequence of admin operations, failing ones included,
\* the names with a directory under <data>/repos/ are the names with a row.
C17_NoOrphans ==
  DirNames = RowNames

\* C18 as stated: every name with a row is a non-empty string over letters,
\* digits, '.', '_' and '-', and no directory is outside <data>/repos/.
C18_NamesValid ==
  /\ \A n \in RowNames : n # "" /\ validName(n)
  /\ \A n \in dirs : UnderRepos(n)

OwnOutput(p) ==
  /\ p.child \notin {"none", "not started"} => p.dir = <<"repos", p.repo, ".git">>
  /\ \A k \in 1 .. Len(p.out) : p.out[k] = << <<"repos", p.repo, ".git">>, k >>

\* C24: concurrent sessions and requests are isolated: every child runs in its
\* own repository's directory and writes to its own connection only, and a step
\* that changes one connection (its child failing, being refused or being
\* killed) changes neither the bytes nor the status another one got.
C24_Isolated ==
  [][ /\ \A i \in 1 .. Len(procs'.conns) : OwnOutput(procs'.conns[i])
      /\ \A i, j \in ProcIds :
           (i # j /\ procs'.conns[i] # procs.conns[i]) =>
             /\ procs'.conns[j].out = procs.conns[j].out
             /\ procs'.conns[j].status = procs.conns[j].status ]_vars

\* Two connections on different repositories: the child of one was killed in
\* the middle of its output, the other one got all of its own and succeeded.
C24_Witness ==
  \E i, j \in ProcIds :
    /\ procs.conns[i].repo # procs.conns[j].repo
    /\ procs.conns[i].child = "killed"
    /\ procs.conns[i].written > 0
    /\ procs.conns[j].child = "exited"
    /\ procs.conns[j].code = 0
    /\ Len(procs.conns[j].out) = MaxChunks
    /\ procs.conns[j].status \in {0, 200}

\* C22: when a front-end could not bind its listener the boot is aborted: the
\* other front-end does not serve, and the process, once it has exited, has
\* exit code 1.
C22_BindFailureAbortsBoot ==
  (server.ssh = "failed" \/ server.http = "failed") =>
    /\ "listening" \notin {server.ssh, server.http}
    /\ server.phase = "exited" => server.exit = 1

\* C22 as the code has it: a listener that cannot bind is logged and nothing
\* else: the process keeps running until it is told to stop and then exits
\* with code 0; exit code 1 comes only from an error before the listeners are
\* started.
C22_BindFailureIsLogged ==
  /\ (server.ssh = "failed" \/ server.http = "failed") =>
       \/ server.phase = "running"
       \/ server.phase = "exited" /\ server.exit = 0
  /\ server.exit = 1 =>
       /\ server.ssh = "none" /\ server.http = "none"
       /\ boots # << >> /\ boots[Len(boots)].err # "nil"

\* The SSH listener could not bind and the HTTP front-end serves alone.
C22_Witness ==
  /\ server.phase = "running"
  /\ server.ssh = "failed"
  /\ server.http = "listening"

\* C23: over the boots, a key file that exists, is readable and parses is
\* loaded as it is, and the boot's fingerprint is that of its key; the file is
\* written only by a boot that found none; and a file that does not parse fails
\* the boot and stays as it is.
C23_HostKeyStable ==
  \A k \in 1 .. Len(boots) :
    LET b == boots[k] IN
    /\ b.err # "open database" =>
         /\ (b.before.exists /\ b.before.mode = "rw" /\ b.before.parses) =>
              (b.after = b.before /\ b.err = "nil" /\ b.fp = <<"SHA256", b.before.key>>)
         /\ (b.before.exists /\ ~b.before.parses) =>
              (b.err # "nil" /\ b.after = b.before)
    /\ b.after # b.before => ~b.before.exists

\* C25: the allowed-signers manifest of a pre-receive run is its own file: two
\* runs that are using their manifests use different files, the file exists
\* while its run uses it, and when the run has exited (accepting, rejecting a
\* commit, failing to list commits, failing to read stdin) its file is gone,
\* unless a run that is still going was given the freed name since.
C25_ManifestPrivateAndReleased ==
  \A i \in 1 .. Len(hookRuns) :
    LET run == hookRuns[i] IN
    /\ run.pc = "start" => run.path = ""
    /\ run.pc = "verifying" =>
         /\ run.path \in tmpdir
         /\ \A j \in 1 .. Len(hookRuns) :
              (j # i /\ hookRuns[j].pc = "verifying") => hookRuns[j].path # run.path
    /\ run.pc = "exited" =>
         \/ run.path \notin tmpdir
         \/ \E j \in 1 .. Len(hookRuns) :
              j # i /\ hookRuns[j].pc = "verifying" /\ hookRuns[j].path = run.path

\* Two pushes at once, each with a manifest; one hook rejected a commit, the
\* other could not read its input, and the temporary directory is empty again.
C25_Witness ==
  /\ Len(hookRuns) = 2
  /\ hookRuns[1].how = "commit" /\ hookRuns[1].path # ""
  /\ hookRuns[2].how = "read stdin" /\ hookRuns[2].path # ""
  /\ hookRuns[1].path # hookRuns[2].path
  /\ tmpdir = {}

\* The number a sequence of lowercase hexadecimal digits stands for.
RECURSIVE HexValue(_)
HexValue(digits) ==
  IF digits = << >> THEN 0
  ELSE 16 * HexValue(SubSeq(digits, 1, Len(digits) - 1))
       + (CHOOSE v \in 0 .. 15 : HexDigits[v + 1] = digits[Len(digits)])

\* C26: what WritePktline wrote for s is four lowercase hexadecimal digits
\* whose value is len(s)+5, then s, then a newline, then 0000, for every s.
C26_FourDigitPrefix ==
  pkt.done =>
    LET n == Len(pkt.s) IN
    /\ Len(pkt.w) = n + 9
    /\ \A k \in 1 .. 4 : pkt.w[k] \in Range(HexDigits)
    /\ HexValue(SubSeq(pkt.w, 1, 4)) = n + 5
    /\ SubSeq(pkt.w, 5, n + 4) = pkt.s
    /\ pkt.w[n + 5] = "\n"
    /\ SubSeq(pkt.w, n + 6, n + 9) = <<"0", "0", "0", "0">>

\* C27: after validation the public URL does not end in a slash, whatever it
\* was configured as.
C27_NoTrailingSlash ==
  config.done =>
    LET url == config.valid.PublicURL IN
    url = << >> \/ url[Len(url)] # "/"

\* C28: a create request that fails because the name is taken leaves the
\* repository of that name as it was. Where nothing deletes or renames a
\* repository, a name that has a row keeps its row, and its directory if it
\* has one, over every step, failed create requests included.
C28_TakenNameKeepsRepo ==
  [][ \A n \in StoreNames :
        repositories[n] # "absent" =>
          /\ repositories'[n] = repositories[n]
          /\ n \in dirs => n \in dirs' ]_vars

\* C29: setup takes effect once: when a password hash is stored, a step of a
\* setup POST other than the one that stored it changes neither the hash nor
\* the admin username, and gives out no session.
C29_SetupOnce ==
  [][ \A r \in 1 .. Len(setupReqs) :
        (/\ settings.password_hash # NoValue
         /\ settings.hashBy # r
         /\ setupReqs'[r] # setupReqs[r]) =>
          /\ settings'.password_hash = settings.password_hash
          /\ settings'.admin_username = settings.admin_username
          /\ webSessions' = webSessions ]_vars

\* C30: for a history of N commits Log returns the commits at positions
\* page*perPage to (page+1)*perPage - 1, counted from 0, in order, as far as
\* the history goes, and hasMore is true exactly when N > (page+1)*perPage.
C30_LogPage ==
  (logCall.done /\ logCall.result.err = "nil") =>
    LET N == Len(logCall.history)
        first == logCall.page * logCall.perPage
        last == IF (logCall.page + 1) * logCall.perPage < N
                  THEN (logCall.page + 1) * logCall.perPage ELSE N
        count == IF last > first THEN last - first ELSE 0 IN
    /\ logCall.result.commits =
         [k \in 1 .. count |-> [Hash |-> logCall.history[first + k]]]
    /\ logCall.result.hasMore <=> (N > (logCall.page + 1) * logCall.perPage)

====
